---- MODULE Spec2Model ----
(***************************************************************************)
(* Graphics controller of the HP 9845 driver (src/mame/drivers/hp9845.cpp):*)
(* the command FSM of the single-plane controller (hp9845b_state) and of   *)
(* the three-plane controller (hp9845c_state), the memory arbiter and its  *)
(* one-shot timer, the light-pen registers and the signals towards the PPU.*)
(*                                                                         *)
(* One register access, timer callback, vertical blank or machine reset is *)
(* one action: the handler runs to its return, loop included.              *)
(***************************************************************************)
EXTENDS Integers, Sequences, FiniteSets, TLC

\* ------------------------------------------------------------------ bounds
\* Number of host/video events (register accesses, vertical blanks, resets)
\* explored along one run.
MaxOps == 5
\* Iterations of the FSM loop followed before the handler is declared stuck.
LoopFuel == 8

\* --------------------------------------------------------- program constants
GVIDEO_MEM_SIZE == 16384
GVIDEO_ADDR_MASK == GVIDEO_MEM_SIZE - 1
GVIDEO_HCNT_OFF == 1
VIDEO_TOT_HPIXELS == 720
GVIDEO_VPIXELS == 455
VIDEO_770_ALPHA_L_LIM == 80

\* gv_fsm_state_t: WAIT_DS_0 is the same value as RESET
GV_STAT_WAIT_DS_0 == "WAIT_DS_0"
GV_STAT_RESET == GV_STAT_WAIT_DS_0
GV_STAT_WAIT_TRIG_0 == "WAIT_TRIG_0"
GV_STAT_WAIT_MEM_0 == "WAIT_MEM_0"
GV_STAT_WAIT_DS_1 == "WAIT_DS_1"
GV_STAT_WAIT_DS_2 == "WAIT_DS_2"
GV_STAT_WAIT_TRIG_1 == "WAIT_TRIG_1"
GV_STAT_WAIT_MEM_1 == "WAIT_MEM_1"
GV_STAT_WAIT_MEM_2 == "WAIT_MEM_2"

FsmStates ==
  { GV_STAT_WAIT_DS_0, GV_STAT_WAIT_TRIG_0, GV_STAT_WAIT_MEM_0, GV_STAT_WAIT_DS_1,
    GV_STAT_WAIT_DS_2, GV_STAT_WAIT_TRIG_1, GV_STAT_WAIT_MEM_1, GV_STAT_WAIT_MEM_2 }

m_line_type ==
  << 65535, 43690, 65280, 65520, 65530, 65526, 65462, 0 >>

m_area_fill ==
  << 65535, 61439, 61375, 61359, 44975, 44463, 44455, 44453,
     42405, 42149, 42145, 42144, 41120, 32928, 32800, 32768 >>

\* ------------------------------------------------------------ bit arithmetic
\* BIT(w , n): bit n of w
BIT(w, n) == (w \div (2 ^ n)) % 2 = 1

\* w & (2^n - 1)
LOW(w, n) == w % (2 ^ n)

\* ~w on a 16-bit word
NOT16(w) == 65535 - LOW(w, 16)

\* BIT_SET / BIT_CLR
\* Variant: the bit is left as it is
BIT_SET_kept(w, n) == w
BIT_CLR_kept(w, n) == w

BIT_SET(w, n) == IF BIT(w, n) THEN w ELSE w + 2 ^ n
BIT_CLR(w, n) == IF BIT(w, n) THEN w - 2 ^ n ELSE w

\* ------------------------------------------------------------ bitplane memory
\* std::vector<uint16_t> m_graphic_mem, zero-filled by resize(): the words
\* that are not 0, keyed by <<plane, address>>.
MemRead(mem, p, a) == IF <<p, a>> \in DOMAIN mem THEN mem[<<p, a>>] ELSE 0

MemWrite(mem, p, a, w) ==
  IF w = 0
  THEN [k \in DOMAIN mem \ {<<p, a>>} |-> mem[k]]
  ELSE [k \in DOMAIN mem \cup {<<p, a>>} |-> IF k = <<p, a>> THEN w ELSE mem[k]]

\* ------------------------------------------------------------ memory arbiter
\* Variant: the memory stays unavailable to the end of the line
time_to_gv_mem_availability_late(s, hp) ==
  IF s.m_graphic_sel
  THEN IF hp < (34 - GVIDEO_HCNT_OFF) THEN 0 ELSE 1
  ELSE 0

\* Variant: the beam position counts whether or not graphics is displayed
time_to_gv_mem_availability_beam(s, hp) ==
  IF hp < (34 - GVIDEO_HCNT_OFF) \/ hp >= (628 - GVIDEO_HCNT_OFF) THEN 0 ELSE 628 - hp

\* time_to_gv_mem_availability: pixel clocks until graphic memory can be
\* accessed, with the beam at horizontal position hp (0 = now).
time_to_gv_mem_availability(s, hp) ==
  IF s.m_graphic_sel
  THEN IF hp < (34 - GVIDEO_HCNT_OFF) \/ hp >= (628 - GVIDEO_HCNT_OFF)
       THEN 0
       ELSE 628 - hp
  ELSE 0

\* Variant: the FSM suspends without arming the timer
timer_adjust_none(s) == s

\* m_gv_timer->adjust(time_mem_av): (re)arms the one-shot timer
timer_adjust(s) == [s EXCEPT !.gv_timer = TRUE]

\* ------------------------------------------------- hp9845b_state (one plane)
b_update_graphic_bits(s) ==
  LET gv_ready == s.m_gv_fsm_state \in
                    {GV_STAT_WAIT_DS_0, GV_STAT_WAIT_DS_1, GV_STAT_WAIT_DS_2}
  IN [s EXCEPT !.flg = gv_ready,
               !.irq = s.m_gv_int_en /\ ~s.m_gv_dma_en /\ gv_ready,
               !.dmar = gv_ready /\ s.m_gv_dma_en]

\* Variant: the I/O counter is not stepped
b_next_io_counter_same(c) == c

\* (m_gv_io_counter + 1) & GVIDEO_ADDR_MASK
b_next_io_counter(c) == (c + 1) % GVIDEO_MEM_SIZE

\* bool act_trig of hp9845b_state::advance_gv_fsm
b_act_trig(s, trigger) == trigger \/ s.m_gv_dma_en \/ ~BIT(s.m_gv_cmd, 2)

\* One iteration of the do/while of hp9845b_state::advance_gv_fsm
b_advance_iter(s, ds, trigger, hp) ==
  LET act_trig == b_act_trig(s, trigger)
      st == s.m_gv_fsm_state
      avail == time_to_gv_mem_availability(s, hp) = 0
      out(t) == [s |-> t, get_out |-> TRUE]
      go(t) == [s |-> t, get_out |-> FALSE]
      next_io == b_next_io_counter(s.m_gv_io_counter)
  IN CASE st = GV_STAT_WAIT_DS_0 ->
            IF s.m_gv_cmd \div 4 = 3
            THEN go([s EXCEPT !.m_gv_fsm_state = GV_STAT_WAIT_MEM_0])
            ELSE IF ds
                 THEN go([s EXCEPT !.m_gv_fsm_state = GV_STAT_WAIT_TRIG_0])
                 ELSE out(s)
       [] st = GV_STAT_WAIT_TRIG_0 ->
            IF act_trig
            THEN IF BIT(s.m_gv_cmd, 3)
                 THEN go([s EXCEPT !.m_gv_io_counter = NOT16(s.m_gv_data_w) % GVIDEO_MEM_SIZE,
                                   !.m_gv_fsm_state = GV_STAT_WAIT_DS_2])
                 ELSE IF BIT(s.m_gv_cmd, 2)
                      THEN go([s EXCEPT !.m_gv_cursor_x = LOW(NOT16(s.m_gv_cursor_w) \div 64, 10),
                                        !.m_gv_fsm_state = GV_STAT_WAIT_DS_0])
                      ELSE go([s EXCEPT !.m_gv_cursor_y = LOW(NOT16(s.m_gv_cursor_w) \div 64, 9),
                                        !.m_gv_cursor_gc = ~BIT(s.m_gv_cmd, 1),
                                        !.m_gv_cursor_fs = BIT(s.m_gv_cmd, 0),
                                        !.m_gv_fsm_state = GV_STAT_WAIT_DS_0])
            ELSE out(s)
       [] st = GV_STAT_WAIT_MEM_0 ->
            IF avail
            THEN go([s EXCEPT !.m_gv_data_r = MemRead(s.m_graphic_mem, 0, s.m_gv_io_counter),
                              !.xfers = Append(s.xfers, << 0, s.m_gv_io_counter >>),
                              !.m_gv_io_counter = next_io,
                              !.m_gv_fsm_state = GV_STAT_WAIT_DS_1])
            ELSE out(timer_adjust(s))
       [] st = GV_STAT_WAIT_DS_1 ->
            IF ds
            THEN go([s EXCEPT !.m_gv_fsm_state = GV_STAT_WAIT_MEM_0])
            ELSE out(s)
       [] st = GV_STAT_WAIT_DS_2 ->
            IF ds
            THEN go([s EXCEPT !.m_gv_fsm_state = GV_STAT_WAIT_TRIG_1])
            ELSE out(s)
       [] st = GV_STAT_WAIT_TRIG_1 ->
            IF act_trig
            THEN IF BIT(s.m_gv_cmd, 1)
                 THEN go([s EXCEPT !.m_gv_data_w = 0,
                                   !.m_gv_fsm_state = GV_STAT_WAIT_MEM_1])
                 ELSE IF BIT(s.m_gv_cmd, 0)
                      THEN go([s EXCEPT !.m_gv_fsm_state = GV_STAT_WAIT_MEM_2])
                      ELSE go([s EXCEPT !.m_gv_fsm_state = GV_STAT_WAIT_MEM_1])
            ELSE out(s)
       [] st = GV_STAT_WAIT_MEM_1 ->
            IF avail
            THEN go([s EXCEPT !.m_graphic_mem =
                                 MemWrite(s.m_graphic_mem, 0, s.m_gv_io_counter, s.m_gv_data_w),
                              !.xfers = Append(s.xfers, << 0, s.m_gv_io_counter >>),
                              !.m_gv_io_counter = next_io,
                              !.m_gv_fsm_state = GV_STAT_WAIT_DS_2])
            ELSE out(timer_adjust(s))
       [] st = GV_STAT_WAIT_MEM_2 ->
            IF avail
            THEN LET old == MemRead(s.m_graphic_mem, 0, s.m_gv_io_counter)
                     bit == 15 - LOW(s.m_gv_data_w, 4)
                     new == IF BIT(s.m_gv_data_w, 15)
                            THEN BIT_SET(old, bit)
                            ELSE BIT_CLR(old, bit)
                 IN go([s EXCEPT !.m_graphic_mem =
                                    MemWrite(s.m_graphic_mem, 0, s.m_gv_io_counter, new),
                                 !.m_gv_io_counter = next_io,
                                 !.m_gv_fsm_state = GV_STAT_WAIT_DS_0])
            ELSE out(timer_adjust(s))
       [] OTHER -> go([s EXCEPT !.m_gv_fsm_state = GV_STAT_RESET])

\* --------------------------------------- hp9845ct_state (light pen, vectors)
ct_update_graphic_bits(s) ==
  LET lp_ready == s.m_gv_lp_int_en /\ s.m_gv_lp_status
      gv_ready == IF s.m_gv_gr_en /\ ~lp_ready
                  THEN s.m_gv_fsm_state \in
                         {GV_STAT_WAIT_DS_0, GV_STAT_WAIT_TRIG_0, GV_STAT_WAIT_DS_1,
                          GV_STAT_WAIT_DS_2, GV_STAT_WAIT_TRIG_1}
                  ELSE lp_ready
  IN [s EXCEPT !.flg = gv_ready,
               !.irq = s.m_gv_int_en /\ ~s.m_gv_dma_en /\ gv_ready,
               !.dmar = gv_ready /\ s.m_gv_dma_en]

lp_r4_w(s, data) ==
  IF ~s.m_gv_lp_en THEN s
  ELSE IF s.m_gv_lp_reg_cnt = 2
       THEN [s EXCEPT !.m_gv_lp_cursor_y = LOW(NOT16(data) \div 64, 9),
                      !.m_gv_lp_fullbright = BIT(data, 1),
                      !.m_gv_lp_threshold = BIT(data, 3),
                      !.m_gv_lp_interlace = ~BIT(data, 4),
                      !.m_gv_lp_vbint = ~BIT(data, 5),
                      !.m_gv_lp_reg_cnt = 1]
       ELSE IF s.m_gv_lp_reg_cnt = 3
            THEN [s EXCEPT !.m_gv_lp_cursor_x = LOW(data \div 64, 10) + 1,
                           !.m_gv_lp_cursor_fs = ~BIT(data, 0),
                           !.m_gv_lp_reg_cnt = 2]
            ELSE s

\* Variant: the YLO read leaves the light pen status as it is
lp_r4_r_status_kept(s) ==
  IF ~s.m_gv_lp_en \/ s.m_gv_lp_reg_cnt \notin {4, 5, 6} THEN [s |-> s, res |-> 0]
  ELSE [s |-> [s EXCEPT !.m_gv_lp_reg_cnt = s.m_gv_lp_reg_cnt - 1],
        res |-> CASE s.m_gv_lp_reg_cnt = 4 -> s.m_gv_lp_data[3]
                  [] s.m_gv_lp_reg_cnt = 5 -> s.m_gv_lp_data[2]
                  [] OTHER -> s.m_gv_lp_data[1] + (IF s.m_gv_lp_vblank THEN 0 ELSE 4096)
                                + (IF s.m_gv_lp_sw THEN 16384 ELSE 0)
                                + (IF s.m_gv_lp_1sthit THEN 32768 ELSE 0)]

\* lp_r4_r: the word returned and the state it leaves
lp_r4_r(s) ==
  IF ~s.m_gv_lp_en THEN [s |-> s, res |-> 0]
  ELSE IF s.m_gv_lp_reg_cnt = 4
       THEN [s |-> ct_update_graphic_bits(
                     [s EXCEPT !.m_gv_lp_reg_cnt = 3,
                               !.m_gv_lp_status = FALSE,
                               !.m_gv_lp_1sthit = FALSE]),
             res |-> s.m_gv_lp_data[3]]
       ELSE IF s.m_gv_lp_reg_cnt = 5
            THEN [s |-> [s EXCEPT !.m_gv_lp_reg_cnt = 4], res |-> s.m_gv_lp_data[2]]
            ELSE IF s.m_gv_lp_reg_cnt = 6
                 THEN LET r0 == s.m_gv_lp_data[1]
                          r1 == IF ~s.m_gv_lp_vblank THEN BIT_SET(r0, 12) ELSE r0
                          r2 == IF s.m_gv_lp_sw THEN BIT_SET(r1, 14) ELSE r1
                          r3 == IF s.m_gv_lp_1sthit THEN BIT_SET(r2, 15) ELSE r2
                      IN [s |-> [s EXCEPT !.m_gv_lp_reg_cnt = 5], res |-> r3]
                 ELSE [s |-> s, res |-> 0]

\* Variant: bit 10 alone enables the light pen
lp_r5_w_bit10(s, data) ==
  ct_update_graphic_bits(
    [s EXCEPT !.m_gv_lp_reg_cnt = LOW(data, 3),
              !.m_gv_lp_en = BIT(data, 10),
              !.m_gv_lp_int_en = BIT(data, 10),
              !.m_gv_lp_selftest = BIT(data, 10) /\ LOW(data, 3) = 7])

lp_r5_w(s, data) ==
  LET cnt == LOW(data, 3)
      en == LOW(data \div 256, 3) = 4
  IN ct_update_graphic_bits(
       [s EXCEPT !.m_gv_lp_reg_cnt = cnt,
                 !.m_gv_lp_en = en,
                 !.m_gv_lp_int_en = BIT(data, 10) /\ ~BIT(data, 8),
                 !.m_gv_lp_selftest = en /\ cnt = 7])

\* (uint16_t)sqrt(n) for 0 <= n <= 81
isqrt(n) == CHOOSE r \in 0..9 : r * r <= n /\ (r + 1) * (r + 1) > n

\* Variant: the difference is taken as it is
iabs_signed(n) == n

iabs(n) == IF n < 0 THEN -n ELSE n

\* Variant: the hit words are always computed from the pointer
lp_selftest_never(s) == FALSE

\* if (m_gv_lp_selftest) of compute_lp_data
lp_selftest(s) == s.m_gv_lp_selftest

compute_lp_data(s) ==
  LET fov == 9
      selftest == lp_selftest(s)
      xoffset == 14
      xp == s.m_gv_lp_x
      yp == s.m_gv_lp_y
      xc == LOW(s.m_gv_lp_cursor_x + 1, 16)
      yc == LOW(s.m_gv_lp_cursor_y + 24, 16)
      dy == IF iabs(xc - xp) <= fov THEN isqrt(fov * fov - (xc - xp) * (xc - xp)) ELSE fov
      dx == IF iabs(yc - yp) <= fov THEN isqrt(fov * fov - (yc - yp) * (yc - yp)) ELSE 0
      vhit == (yp + dy >= yc - 24) /\ (yp - dy <= yc - 24)
      yhi == IF vhit
             THEN (IF (yp - dy > yc - 24) \/ ~s.m_gv_lp_interlace THEN yp - dy ELSE yc - 24)
             ELSE yp - fov
      ylo == IF vhit
             THEN (IF (yp + dy < yc + 24) \/ ~s.m_gv_lp_interlace THEN yp + dy ELSE yc + 24)
             ELSE yp + fov
      xleft == IF (xp + dx >= xc - 24) /\ (xp - dx <= xc + 24)
               THEN (IF xp - dx > xc - 24 THEN xp - dx - fov + xoffset
                                           ELSE xp + dx - fov + xoffset)
               ELSE xp - fov + xoffset
      offset == 57 - VIDEO_770_ALPHA_L_LIM
      xwin == IF selftest THEN TRUE
              ELSE s.m_gv_lp_interlace /\ (xp > xc - 24) /\ (xp < xc + 24)
      ywin == IF selftest THEN TRUE
              ELSE s.m_gv_lp_interlace /\ (yp > yc - 24) /\ (yp < yc + 24)
      d0 == IF selftest THEN 511 - ((s.m_gv_lp_cursor_y + 16) % 512)
                                  ELSE 511 - (yhi % 512)
      d1 == IF selftest THEN 1023 - ((s.m_gv_lp_cursor_x + offset) % 1024)
                                  ELSE 1023 - (xleft % 1024)
      d2 == IF selftest THEN 511 - ((s.m_gv_lp_cursor_y + 32) % 512)
                                  ELSE 511 - (ylo % 512)
      w13(d) == IF ~xwin THEN BIT_SET(d, 13) ELSE d
      w14(d) == IF ~ywin THEN BIT_SET(d, 14) ELSE d
  IN [s EXCEPT !.m_gv_lp_status = TRUE,
               !.m_gv_lp_xwindow = xwin,
               !.m_gv_lp_ywindow = ywin,
               !.m_gv_lp_data = << w13(d0), w14(w13(d1)), w14(w13(d2)) >>,
               !.m_gv_lp_1sthit = TRUE]

\* Variant: the mask is rotated at every call
update_line_pattern_each(s) ==
  [s EXCEPT !.m_gv_line_type_mask =
              ((IF BIT(s.m_gv_line_type_mask, 15) THEN 1 ELSE 0) + 2 * s.m_gv_line_type_mask) % 65536,
            !.m_gv_repeat_count = 0]

update_line_pattern(s) ==
  LET rc == s.m_gv_repeat_count + 1
      save_bit == IF BIT(s.m_gv_line_type_mask, 15) THEN 1 ELSE 0
  IN IF rc > LOW(s.m_gv_line_type_area_fill \div 32, 4)
     THEN [s EXCEPT !.m_gv_line_type_mask = (save_bit + 2 * s.m_gv_line_type_mask) % 65536,
                    !.m_gv_repeat_count = 0]
     ELSE [s EXCEPT !.m_gv_repeat_count = rc]

\* Variant: the address is not masked
get_gv_mem_addr_unmasked(x, y) == x + y * 35

get_gv_mem_addr(x, y) == (x + y * 35) % GVIDEO_MEM_SIZE

\* ------------------------------------------------ hp9845c_state (three planes)
plot(s, x, y, draw_erase) ==
  LET bit == 15 - (x % 16)
      addr == get_gv_mem_addr(x \div 16, y)
      dominance == BIT(s.m_gv_memory_control, 6)
      one(mem, p) ==
        IF ~BIT(s.m_gv_memory_control, p) THEN mem
        ELSE LET turned == ~BIT(s.m_gv_memory_control, p + 3) /\ draw_erase
                 do_draw == draw_erase /\ ~turned
                 do_erase == dominance \/ turned
                 old == MemRead(mem, p, addr)
             IN IF do_draw THEN MemWrite(mem, p, addr, BIT_SET(old, bit))
                ELSE IF do_erase THEN MemWrite(mem, p, addr, BIT_CLR(old, bit))
                ELSE mem
  IN [s EXCEPT !.m_graphic_mem = one(one(one(s.m_graphic_mem, 0), 1), 2),
               !.plots = Append(s.plots, << x, y, draw_erase >>)]

\* The for(;;) of draw_line. w = [s, x, y, err, done] is the walk after some
\* iterations; done: the break was taken.
draw_line_step(w, x1, y1, dx, dy, sx, sy) ==
  IF w.done THEN w
  ELSE LET last == w.x = x1 /\ w.y = y1
           stepx == ~last /\ w.err > -dx
           stepy == ~last /\ w.err < dy
           err1 == IF stepx THEN w.err - dy ELSE w.err
           err2 == IF stepy THEN err1 + dx ELSE err1
       IN [s |-> update_line_pattern(
                   plot(w.s, LOW(w.x, 16), LOW(w.y, 16), BIT(w.s.m_gv_line_type_mask, 15))),
           x |-> IF stepx THEN w.x + sx ELSE w.x,
           y |-> IF stepy THEN w.y + sy ELSE w.y,
           err |-> err2,
           done |-> last]

\* n iterations of the for(;;), first half then second half
RECURSIVE draw_line_walk(_, _, _, _, _, _, _, _)
draw_line_walk(w, n, x1, y1, dx, dy, sx, sy) ==
  IF n = 0 \/ w.done THEN w
  ELSE IF n = 1 THEN draw_line_step(w, x1, y1, dx, dy, sx, sy)
  ELSE LET half == draw_line_walk(w, n \div 2, x1, y1, dx, dy, sx, sy)
       IN IF half.done THEN half
          ELSE draw_line_walk(half, n - (n \div 2), x1, y1, dx, dy, sx, sy)

\* A walk that has not reached (x1 , y1) after dx + dy + 1 points never does.
draw_line_end(w) == [w.s EXCEPT !.hung = ~w.done]

draw_line(s, x0, y0, x1, y1) ==
  LET dx == iabs(x1 - x0)
      dy == iabs(y1 - y0)
      sx == IF x0 < x1 THEN 1 ELSE -1
      sy == IF y0 < y1 THEN 1 ELSE -1
      err == IF dx > dy THEN dx \div 2 ELSE -(dy \div 2)
  IN draw_line_end(draw_line_walk([s |-> s, x |-> x0, y |-> y0, err |-> err, done |-> FALSE],
                                  dx + dy + 1, x1, y1, dx, dy, sx, sy))

\* The inner for of pattern_fill on row y, for x in lo..hi in ascending order
RECURSIVE pattern_fill_cols(_, _, _, _)
pattern_fill_cols(s, y, lo, hi) ==
  LET nibble == LOW(m_area_fill[LOW(s.m_gv_line_type_area_fill, 4) + 1]
                      \div (2 ^ (12 - 4 * (y % 4))), 4)
      fill_mask == nibble * 4369
      mid == (lo + hi) \div 2
  IN IF lo > hi THEN s
     ELSE IF lo = hi THEN plot(s, lo, y, BIT(fill_mask, 15 - (lo % 16)))
     ELSE LET left == pattern_fill_cols(s, y, lo, mid)
          IN IF left.hung THEN left ELSE pattern_fill_cols(left, y, mid + 1, hi)

\* The outer for of pattern_fill on the rows lo..hi in ascending order;
\* w = [s, x]: x is set before the outer loop only and keeps its value from
\* one row to the next.
RECURSIVE pattern_fill_rows(_, _, _, _)
pattern_fill_rows(w, lo, hi, xmax) ==
  LET mid == (lo + hi) \div 2
  IN IF lo > hi THEN w
     ELSE IF lo = hi
          THEN [s |-> pattern_fill_cols(w.s, lo, w.x, xmax),
                x |-> IF w.x <= xmax THEN xmax + 1 ELSE w.x]
          ELSE LET upper == pattern_fill_rows(w, lo, mid, xmax)
               IN IF upper.s.hung THEN upper
                  ELSE pattern_fill_rows(upper, mid + 1, hi, xmax)

pattern_fill(s, x0, y0, x1, y1) ==
  pattern_fill_rows([s |-> s, x |-> IF x0 < x1 THEN x0 ELSE x1],
                    IF y0 < y1 THEN y0 ELSE y1, IF y0 < y1 THEN y1 ELSE y0,
                    IF x0 < x1 THEN x1 ELSE x0).s

\* Variant: every X word of a load of end points draws
draw_bit_any(s) == TRUE

\* Bit 10 of the X word of a load of end points: draw to the new end point
draw_bit(s) == BIT(s.m_gv_data_w, 10)

\* Variant: the line is always drawn from the new end point to the one before
endpoints_ordered_never(s) == FALSE

\* The end points of a vector are taken in the order (before, new) when the
\* new one lies to the right, else in the order (new, before)
endpoints_ordered(s) == s.m_gv_xpt > s.m_gv_last_xpt

\* Variant: the restore reloads the address and leaves the plane where it is
check_io_counter_restore_addr(s) ==
  IF s.m_gv_last_cmd # s.m_gv_cmd
  THEN [s EXCEPT !.m_gv_io_counter = (s.m_gv_word_x_position
                                        + s.m_gv_word_y_position * 35) % GVIDEO_MEM_SIZE,
                 !.m_gv_last_cmd = s.m_gv_cmd]
  ELSE s

check_io_counter_restore(s) ==
  IF s.m_gv_last_cmd # s.m_gv_cmd
  THEN [s EXCEPT !.m_gv_io_counter =
                    get_gv_mem_addr(s.m_gv_word_x_position, s.m_gv_word_y_position),
                 !.m_gv_plane = IF s.m_gv_plane_wrap THEN 2
                                ELSE IF s.m_gv_plane > 0 THEN s.m_gv_plane - 1
                                ELSE s.m_gv_plane,
                 !.m_gv_last_cmd = s.m_gv_cmd]
  ELSE s

\* Variant: after plane 2 of the last address comes plane 0 of address 0
advance_io_counter_wrap(s) ==
  IF s.m_gv_plane + 1 > 2
  THEN [s EXCEPT !.m_gv_plane = 0,
                 !.m_gv_io_counter = (s.m_gv_io_counter + 1) % GVIDEO_MEM_SIZE,
                 !.m_gv_plane_wrap = TRUE]
  ELSE [s EXCEPT !.m_gv_plane = s.m_gv_plane + 1]

\* Variant: every word steps the address, the plane is left alone
advance_io_counter_addr(s) ==
  [s EXCEPT !.m_gv_io_counter = (s.m_gv_io_counter + 1) % GVIDEO_MEM_SIZE]

advance_io_counter(s) ==
  IF s.m_gv_plane + 1 > 2
  THEN IF s.m_gv_io_counter < GVIDEO_ADDR_MASK
       THEN [s EXCEPT !.m_gv_plane = 0,
                      !.m_gv_io_counter = s.m_gv_io_counter + 1,
                      !.m_gv_plane_wrap = TRUE]
       ELSE [s EXCEPT !.m_gv_plane = 2, !.m_gv_plane_wrap = TRUE]
  ELSE [s EXCEPT !.m_gv_plane = s.m_gv_plane + 1]

\* Variant: a strobe in WAIT_DS_2 goes straight to the memory access
c_WAIT_DS_2_direct(s, ds) ==
  IF ds THEN [s |-> [s EXCEPT !.m_gv_fsm_state = GV_STAT_WAIT_MEM_1], get_out |-> FALSE]
  ELSE [s |-> s, get_out |-> TRUE]

\* case GV_STAT_WAIT_DS_2 of hp9845c_state::advance_gv_fsm
c_WAIT_DS_2(s, ds) ==
  IF ds
  THEN [s |-> [s EXCEPT !.m_gv_fsm_state = GV_STAT_WAIT_TRIG_1], get_out |-> FALSE]
  ELSE [s |-> s, get_out |-> TRUE]

\* Variant: only an explicit trigger counts
c_act_trig_explicit(s, trigger) == trigger

\* bool act_trig of hp9845c_state::advance_gv_fsm (U73)
c_act_trig(s, trigger) == trigger \/ s.m_gv_int_en \/ ~BIT(s.m_gv_cmd, 0)

\* Variant: a word transfer writes whatever the memory control word says
plane_active_always(s) == TRUE

\* (m_gv_cmd == 0x0) || BIT(m_gv_memory_control, m_gv_plane): the word
\* transfer of WAIT_MEM_1 writes the plane
plane_active(s) == s.m_gv_cmd = 0 \/ BIT(s.m_gv_memory_control, s.m_gv_plane)

\* One iteration of the do/while of hp9845c_state::advance_gv_fsm
c_advance_iter(s, ds, trigger, hp) ==
  LET act_trig == c_act_trig(s, trigger)
      st == s.m_gv_fsm_state
      cmd == s.m_gv_cmd
      avail == time_to_gv_mem_availability(s, hp) = 0
      out(t) == [s |-> t, get_out |-> TRUE]
      go(t) == [s |-> t, get_out |-> FALSE]
      io_addr(t) == [t EXCEPT !.m_gv_io_counter =
                                 get_gv_mem_addr(t.m_gv_word_x_position, t.m_gv_word_y_position),
                              !.m_gv_plane = 0,
                              !.m_gv_plane_wrap = FALSE]
      fs8(t, v) == IF t.m_gv_cursor_fs THEN LOW(v - 8, 16) ELSE LOW(v, 16)
      param ==
        CASE cmd = 8 ->
               io_addr([s EXCEPT !.m_gv_word_x_position = LOW(NOT16(s.m_gv_data_w), 6)])
          [] cmd = 9 ->
               io_addr([s EXCEPT !.m_gv_word_y_position = LOW(NOT16(s.m_gv_data_w), 9)])
          [] cmd = 10 -> [s EXCEPT !.m_gv_memory_control = LOW(s.m_gv_data_w, 7)]
          [] cmd = 11 ->
               LET ltaf == LOW(s.m_gv_data_w, 9)
               IN IF BIT(ltaf, 4)
                  THEN [s EXCEPT !.m_gv_line_type_area_fill = ltaf,
                                 !.m_gv_line_type_mask = m_line_type[LOW(ltaf, 3) + 1],
                                 !.m_gv_repeat_count = 0]
                  ELSE [s EXCEPT !.m_gv_line_type_area_fill = ltaf]
          [] cmd = 12 -> [s EXCEPT !.m_gv_music_memory = LOW(s.m_gv_data_w, 9)]
          [] cmd = 13 -> [s EXCEPT !.m_gv_ypt = LOW(NOT16(s.m_gv_data_w), 9)]
          [] cmd = 14 ->
               [s EXCEPT !.m_gv_cursor_color = LOW(NOT16(s.m_gv_data_w), 3),
                         !.m_gv_cursor_y = fs8(s, 1073 - (s.m_gv_data_w \div 64))]
          [] cmd = 15 ->
               LET fs == BIT(s.m_gv_data_w, 0)
                   t == [s EXCEPT !.m_gv_cursor_fs = fs,
                                  !.m_gv_cursor_gc = BIT(s.m_gv_data_w, 1) \/ fs]
               IN [t EXCEPT !.m_gv_cursor_x = fs8(t, LOW(s.m_gv_data_w \div 64, 10) - 42)]
          [] OTHER -> s
      vector ==
        LET norm == endpoints_ordered(s)
            drawn == IF BIT(s.m_gv_line_type_area_fill, 4)
                     THEN draw_line(s, IF norm THEN s.m_gv_last_xpt ELSE s.m_gv_xpt,
                                       IF norm THEN s.m_gv_last_ypt ELSE s.m_gv_ypt,
                                       IF norm THEN s.m_gv_xpt ELSE s.m_gv_last_xpt,
                                       IF norm THEN s.m_gv_ypt ELSE s.m_gv_last_ypt)
                     ELSE pattern_fill(s, s.m_gv_xpt, s.m_gv_ypt, s.m_gv_last_xpt, s.m_gv_last_ypt)
        IN [drawn EXCEPT !.m_gv_last_xpt = s.m_gv_xpt,
                         !.m_gv_last_ypt = s.m_gv_ypt,
                         !.m_gv_fsm_state = GV_STAT_WAIT_DS_0]
  IN CASE st = GV_STAT_WAIT_DS_0 ->
            IF cmd = 1
            THEN go([check_io_counter_restore(s) EXCEPT
                       !.m_gv_fsm_state = GV_STAT_WAIT_MEM_0,
                       !.m_gv_last_cmd = cmd])
            ELSE IF ds
                 THEN IF cmd = 0 \/ cmd = 2
                      THEN go([check_io_counter_restore(s) EXCEPT
                                 !.m_gv_fsm_state = GV_STAT_WAIT_TRIG_1,
                                 !.m_gv_last_cmd = cmd])
                      ELSE go([s EXCEPT !.m_gv_fsm_state = GV_STAT_WAIT_TRIG_0,
                                        !.m_gv_last_cmd = cmd])
                 ELSE out(s)
       [] st = GV_STAT_WAIT_TRIG_0 ->
            IF act_trig
            THEN [s |-> [param EXCEPT !.m_gv_fsm_state =
                                         IF cmd = 13 THEN GV_STAT_WAIT_DS_2
                                                     ELSE GV_STAT_WAIT_DS_0],
                  get_out |-> cmd # 13]
            ELSE out(s)
       [] st = GV_STAT_WAIT_MEM_0 ->
            IF avail
            THEN go([advance_io_counter(
                       [s EXCEPT !.m_gv_data_r =
                                    MemRead(s.m_graphic_mem, s.m_gv_plane, s.m_gv_io_counter),
                                 !.xfers = Append(s.xfers, << s.m_gv_plane, s.m_gv_io_counter >>)])
                     EXCEPT !.m_gv_fsm_state = GV_STAT_WAIT_DS_1])
            ELSE out(timer_adjust(s))
       [] st = GV_STAT_WAIT_DS_1 ->
            IF ds
            THEN go([s EXCEPT !.m_gv_fsm_state = GV_STAT_WAIT_MEM_0])
            ELSE out(s)
       [] st = GV_STAT_WAIT_DS_2 -> c_WAIT_DS_2(s, ds)
       [] st = GV_STAT_WAIT_TRIG_1 ->
            IF act_trig
            THEN IF cmd = 13
                 THEN LET xpt == LOW(NOT16(s.m_gv_data_w), 10)
                      IN IF draw_bit(s)
                         THEN go([s EXCEPT !.m_gv_xpt = xpt,
                                           !.m_gv_fsm_state = GV_STAT_WAIT_MEM_2])
                         ELSE go([s EXCEPT !.m_gv_xpt = xpt,
                                           !.m_gv_last_xpt = xpt,
                                           !.m_gv_last_ypt = s.m_gv_ypt,
                                           !.m_gv_fsm_state = GV_STAT_WAIT_DS_0])
                 ELSE IF cmd = 2
                      THEN go([s EXCEPT !.m_gv_data_w =
                                           IF BIT(s.m_gv_memory_control, s.m_gv_plane + 3)
                                           THEN 65535 ELSE 0,
                                        !.m_gv_fsm_state = GV_STAT_WAIT_MEM_1])
                      ELSE IF cmd = 0
                           THEN go([s EXCEPT !.m_gv_fsm_state = GV_STAT_WAIT_MEM_1])
                           ELSE go(s)
            ELSE out(s)
       [] st = GV_STAT_WAIT_MEM_1 ->
            IF avail
            THEN LET w == IF plane_active(s)
                          THEN [s EXCEPT !.m_graphic_mem =
                                            MemWrite(s.m_graphic_mem, s.m_gv_plane,
                                                     s.m_gv_io_counter, s.m_gv_data_w)]
                          ELSE s
                 IN go([advance_io_counter(
                          [w EXCEPT !.xfers = Append(s.xfers, << s.m_gv_plane, s.m_gv_io_counter >>)])
                        EXCEPT !.m_gv_fsm_state = GV_STAT_WAIT_DS_2])
            ELSE out(timer_adjust(s))
       [] st = GV_STAT_WAIT_MEM_2 ->
            IF avail THEN go(vector) ELSE out(timer_adjust(s))
       [] OTHER -> go([s EXCEPT !.m_gv_fsm_state = GV_STAT_RESET])

\* The do/while of advance_gv_fsm (isC: the three-plane class); r is the
\* outcome of the iteration that began in s. An iteration without strobe or
\* trigger that ends where it began and does not set get_out repeats for ever:
\* the handler does not return (hung).
RECURSIVE advance_loop(_, _, _, _, _, _), advance_while(_, _, _, _, _, _, _)
advance_while(isC, s, r, ds, trigger, hp, fuel) ==
  IF r.s.hung \/ r.get_out
  THEN [r.s EXCEPT !.path = Append(s.path, r.s.m_gv_fsm_state)]
  ELSE IF (~ds /\ ~trigger /\ r.s = s) \/ fuel = 0
       THEN [r.s EXCEPT !.path = Append(s.path, r.s.m_gv_fsm_state), !.hung = TRUE]
       ELSE advance_loop(isC, [r.s EXCEPT !.path = Append(s.path, r.s.m_gv_fsm_state)],
                         FALSE, FALSE, hp, fuel - 1)

advance_loop(isC, s, ds, trigger, hp, fuel) ==
  advance_while(isC, s,
                IF isC THEN c_advance_iter(s, ds, trigger, hp)
                       ELSE b_advance_iter(s, ds, trigger, hp),
                ds, trigger, hp, fuel)

\* update_graphic_bits at the end of advance_gv_fsm
b_advance_end(t) == IF t.hung THEN t ELSE b_update_graphic_bits(t)

b_advance_gv_fsm(s, ds, trigger, hp) ==
  b_advance_end(advance_loop(FALSE, [s EXCEPT !.path = << s.m_gv_fsm_state >>],
                             ds, trigger, hp, LoopFuel))

\* Variant: advance_gv_fsm returns without update_graphic_bits
c_advance_end_skip(t) == t

\* update_graphic_bits at the end of advance_gv_fsm
c_advance_end(t) == IF t.hung THEN t ELSE ct_update_graphic_bits(t)

\* Variant: the FSM runs whatever graphics enable is
c_fsm_runs_always(s) == TRUE

\* if (!m_gv_gr_en) return: the FSM of the three-plane controller runs only
\* with graphics enable set
c_fsm_runs(s) == s.m_gv_gr_en

c_advance_gv_fsm(s, ds, trigger, hp) ==
  IF ~c_fsm_runs(s) THEN s
  ELSE c_advance_end(advance_loop(TRUE, [s EXCEPT !.path = << s.m_gv_fsm_state >>],
                                  ds, trigger, hp, LoopFuel))

\* ------------------------------------------------------------ register access
\* graphic_w / graphic_r: offset 0..3 is R4..R7. A handler whose FSM loop does
\* not return (hung) runs nothing after it.
b_graphic_w(s, offset, data, hp) ==
  LET pre == CASE offset = 0 -> [s EXCEPT !.m_gv_data_w = data, !.m_gv_cursor_w = data]
               [] offset = 1 ->
                    [s EXCEPT !.m_gv_cmd = LOW(data, 4),
                              !.m_gv_dma_en = BIT(data, 6),
                              !.m_gv_int_en = BIT(data, 7),
                              !.m_gv_fsm_state = IF BIT(data, 5) THEN GV_STAT_RESET
                                                 ELSE s.m_gv_fsm_state]
               [] offset = 2 ->
                    [s EXCEPT !.m_gv_dma_en = FALSE,
                              !.m_gv_data_w = data,
                              !.m_gv_cursor_w = data]
               [] OTHER -> s
  IN b_advance_gv_fsm(pre, offset = 0 \/ offset = 2, offset = 3, hp)

\* Variant: a read of R6 leaves DMA enable as it is
r6_dma_en_kept(s, offset) == s.m_gv_dma_en

\* m_gv_dma_en as a read of R4 (offset 0) or R6 (offset 2) leaves it:
\* case 2 starts with m_gv_dma_en = false
r6_dma_en(s, offset) == offset = 0 /\ s.m_gv_dma_en

\* graphic_r: [s: the state left, res: the word returned]; R5 and R7 reads do
\* not run the FSM.
b_graphic_r(s, offset, hp) ==
  IF offset = 0 \/ offset = 2
  THEN [s |-> b_advance_gv_fsm([s EXCEPT !.m_gv_dma_en = r6_dma_en(s, offset)],
                               TRUE, FALSE, hp),
        res |-> s.m_gv_data_r]
  ELSE [s |-> s,
        res |-> IF offset = 1
                THEN (IF s.m_gv_int_en THEN 128 ELSE 0)
                       + (IF s.m_gv_dma_en THEN 64 ELSE 0) + 32
                ELSE 0]

\* The light pen part of graphic_w, after advance_gv_fsm has returned
c_graphic_w_lp(t, offset, data) ==
  IF t.hung \/ offset = 3 THEN t
  ELSE IF offset = 1 THEN lp_r5_w(t, data)
  ELSE lp_r4_w(t, data)

\* Variant: every R5 write resets the FSM
c_r5_fsm_state_any(s, data) == GV_STAT_RESET

\* Variant: the reset bit of R5 is ignored
c_r5_fsm_state_kept(s, data) == s.m_gv_fsm_state

\* if (BIT(data , 5)) m_gv_fsm_state = GV_STAT_RESET, on an R5 write
c_r5_fsm_state(s, data) ==
  IF BIT(data, 5) THEN GV_STAT_RESET ELSE s.m_gv_fsm_state

c_graphic_w(s, offset, data, hp) ==
  LET pre == CASE offset = 0 -> [s EXCEPT !.m_gv_data_w = data]
               [] offset = 1 ->
                    [s EXCEPT !.m_gv_cmd = LOW(data, 4),
                              !.m_gv_dma_en = BIT(data, 6),
                              !.m_gv_int_en = BIT(data, 7),
                              !.m_gv_gr_en = BIT(data, 8),
                              !.m_gv_sk_en = BIT(data, 9),
                              !.m_gv_opt_en = BIT(data, 11),
                              !.m_gv_dsa_en = BIT(data, 12),
                              !.m_gv_fsm_state = c_r5_fsm_state(s, data)]
               [] offset = 2 -> [s EXCEPT !.m_gv_dma_en = FALSE, !.m_gv_data_w = data]
               [] OTHER -> s
  IN c_graphic_w_lp(c_advance_gv_fsm(pre, offset = 0 \/ offset = 2, offset = 3, hp),
                    offset, data)

\* R4 / R6 read: the data word (the light pen's when it is enabled), then the FSM
\* Variant: the word returned is the one last written by the host
c_r4_word_written(t) == [s |-> t, res |-> t.m_gv_data_w]

\* The word an R4 / R6 read returns: the light pen's when it is enabled, else
\* the word last fetched from graphic memory
c_r4_word(t) ==
  IF t.m_gv_lp_en THEN lp_r4_r(t) ELSE [s |-> t, res |-> t.m_gv_data_r]

c_graphic_r_after(lp, hp) ==
  [s |-> c_advance_gv_fsm(lp.s, TRUE, FALSE, hp), res |-> lp.res]

c_graphic_r_data(t, hp) == c_graphic_r_after(c_r4_word(t), hp)

c_graphic_r(s, offset, hp) ==
  IF offset = 0 \/ offset = 2
  THEN c_graphic_r_data([s EXCEPT !.m_gv_dma_en = r6_dma_en(s, offset)], hp)
  ELSE IF offset = 1
       THEN [s |-> ct_update_graphic_bits([s EXCEPT !.m_gv_sk_status = FALSE]),
             res |-> (IF s.m_gv_int_en THEN 128 ELSE 0) + (IF s.m_gv_dma_en THEN 64 ELSE 0)
                       + (IF s.m_gv_lp_status /\ s.m_gv_lp_int_en THEN 1 ELSE 0)
                       + (IF s.m_gv_sk_status THEN 2 ELSE 0) + 2048]
       ELSE [s |-> s, res |-> 0]

\* -------------------------------------------------------------- alpha video
\* Limit of host-memory reads of one row fetch
MAX_WORD_PER_ROW == 220

VIDEO_CHAR_HEIGHT == 15
VIDEO_CHAR_COLUMNS == 80
VIDEO_CHAR_ROWS == 25
VIDEO_ROWS_TOTAL == 26
VIDEO_VTOTAL == VIDEO_CHAR_HEIGHT * VIDEO_ROWS_TOTAL
VIDEO_ACTIVE_SCANLINES == VIDEO_CHAR_HEIGHT * VIDEO_CHAR_ROWS
GVIDEO_VTOTAL == 478
GVIDEO_VBEND == 16
GVIDEO_VBSTART == GVIDEO_VBEND + GVIDEO_VPIXELS
GVIDEO_HPIXELS == 560
VIDEO_770_VTOTAL == 485
VIDEO_770_VBEND == 0
VIDEO_770_VBSTART == VIDEO_770_VBEND + GVIDEO_VPIXELS
VIDEO_770_ALPHA_R_LIM == 640
VIDEO_BUFFER_BASE_LOW == 90112
VIDEO_BUFFER_BASE_HIGH == 94208

\* prog_space.read_word(mar << 1): host memory is the words of a display list
\* (mem, keyed by word address) and one word everywhere else (rest)
ReadWord(ram, mar) == IF mar \in DOMAIN ram.mem THEN ram.mem[mar] ELSE ram.rest

\* m_video_buff[ i ]: chars and attrs hold the cells that are not 0, keyed by
\* cell index
EmptyBuff == [full |-> FALSE, chars |-> << >>, attrs |-> << >>]

CellRead(cells, i) == IF i \in DOMAIN cells THEN cells[i] ELSE 0

CellWrite(cells, i, v) ==
  IF v = 0
  THEN [k \in DOMAIN cells \ {i} |-> cells[k]]
  ELSE [k \in DOMAIN cells \cup {i} |-> IF k = i THEN v ELSE cells[k]]

\* memset(&cells[ from ] , v , 80 - from)
CellFill(cells, from, v) ==
  IF v = 0
  THEN [k \in DOMAIN cells \ (from..(from + (VIDEO_CHAR_COLUMNS - from) - 1)) |-> cells[k]]
  ELSE [k \in DOMAIN cells \cup (from..(from + (VIDEO_CHAR_COLUMNS - from) - 1)) |->
          IF k >= from THEN v ELSE cells[k]]

\* set_video_mar
b_set_video_mar(mar) == (mar % 4096) + VIDEO_BUFFER_BASE_HIGH
ct_set_video_mar(mar) == (mar % 8192) + VIDEO_BUFFER_BASE_LOW

\* set_graphic_mode
b_set_graphic_mode(s, graphic) == [s EXCEPT !.m_graphic_sel = graphic]
c_set_graphic_mode(s, graphic, alpha) ==
  [s EXCEPT !.m_graphic_sel = graphic, !.m_alpha_sel = alpha]

\* The fetch of one word in video_fill_buff. w = [s, char_idx, iters, done] is
\* the row fetch after some iterations of the while (1); done: a break was
\* taken. reads counts the words read from host memory.
fill_read(isC, w) ==
  LET s == w.s
      word == ReadWord(s.ram, s.m_video_mar)
      t == [s EXCEPT !.m_video_word = word, !.reads = @ + 1]
  IN IF s.m_video_load_mar
     THEN LET u == IF ~s.m_video_first_mar THEN t
                   ELSE IF isC THEN c_set_graphic_mode(t, BIT(word, 15), BIT(word, 14))
                   ELSE b_set_graphic_mode(t, ~BIT(word, 15))
          IN [w EXCEPT !.iters = @ + 1,
                       !.s = [u EXCEPT !.m_video_first_mar = FALSE,
                                       !.m_video_mar = IF isC THEN ct_set_video_mar(NOT16(word))
                                                             ELSE b_set_video_mar(NOT16(word)),
                                       !.m_video_load_mar = FALSE]]
     ELSE [w EXCEPT !.iters = @ + 1,
                    !.s = [t EXCEPT !.m_video_mar = IF isC THEN ct_set_video_mar(s.m_video_mar + 1)
                                                          ELSE b_set_video_mar(s.m_video_mar + 1)]]

\* End of line: the rest of the row buffer is filled with spaces
\* Variant: the row buffer is left not full
fill_eol_open(w, b, attr) ==
  [w EXCEPT !.done = TRUE, !.s.eol = TRUE]

fill_eol(w, b, attr) ==
  [w EXCEPT !.done = TRUE,
            !.s.eol = TRUE,
            !.s.cells = @ \cup (w.char_idx..(w.char_idx + (VIDEO_CHAR_COLUMNS - w.char_idx) - 1)),
            !.s.m_video_buff[b].chars = CellFill(@, w.char_idx, 32),
            !.s.m_video_buff[b].attrs = CellFill(@, w.char_idx, attr),
            !.s.m_video_buff[b].full = TRUE]

\* The row is complete at 80 characters
\* Variant: the row is never complete by count
fill_row_end_never(char_idx) == FALSE

fill_row_end(char_idx) == char_idx = VIDEO_CHAR_COLUMNS

\* A character and its attributes are stored in the next cell
fill_store(w, b, char, attr) ==
  LET t == [w.s EXCEPT !.cells = @ \cup {w.char_idx},
                       !.stored = @ + 1,
                       !.m_video_buff[b].chars = CellWrite(@, w.char_idx, char),
                       !.m_video_buff[b].attrs = CellWrite(@, w.char_idx, attr)]
      last == fill_row_end(w.char_idx + 1)
  IN [w EXCEPT !.char_idx = @ + 1,
               !.done = last,
               !.s = IF last THEN [t EXCEPT !.m_video_buff[b].full = TRUE] ELSE t]

\* hp9845b_state::video_fill_buff: the byte parsed in one iteration
b_fill_parse(w, b, byte) ==
  IF byte \div 64 = 2
  THEN [w EXCEPT !.s.m_video_attr = byte % 32]
  ELSE IF byte \div 64 = 3 /\ byte % 2 = 0
  THEN [w EXCEPT !.s.m_video_load_mar = TRUE, !.s.m_video_byte_idx = FALSE]
  ELSE IF byte \div 64 = 3 /\ byte % 2 = 1
  THEN fill_eol(w, b, w.s.m_video_attr)
  ELSE fill_store(w, b, byte, w.s.m_video_attr)

\* The limit on accesses per row
\* Variant: no limit
fill_budget_none(iters) == FALSE

fill_budget(iters) == iters >= MAX_WORD_PER_ROW

\* hp9845b_state::video_fill_buff: one iteration of the while (1)
b_fill_step(w, b) ==
  IF w.done THEN w
  ELSE IF ~w.s.m_video_byte_idx
  THEN IF fill_budget(w.iters)
       THEN [w EXCEPT !.done = TRUE, !.iters = @ + 1]
       ELSE LET r == fill_read(FALSE, w)
            IN IF w.s.m_video_load_mar THEN r
               ELSE b_fill_parse([r EXCEPT !.s.m_video_byte_idx = TRUE], b,
                                 r.s.m_video_word \div 256)
  ELSE b_fill_parse([w EXCEPT !.s.m_video_byte_idx = FALSE], b, w.s.m_video_word % 256)

\* hp9845ct_state::video_fill_buff: the word parsed in one iteration
ct_fill_parse(w, b, word) ==
  IF word = 32800
  THEN fill_eol(w, b, 0)
  ELSE IF BIT(word, 15) /\ ~BIT(word, 14) /\ ~BIT(word, 5)
  THEN [w EXCEPT !.s.m_video_load_mar = TRUE]
  ELSE IF BIT(word, 15) /\ BIT(word, 14)
  THEN w
  ELSE fill_store(w, b, word % 256, word \div 256)

\* hp9845ct_state::video_fill_buff: one iteration of the while (1)
ct_fill_step(w, b) ==
  IF w.done THEN w
  ELSE IF (w.s.m_video_mar % 8192) > 7679
  THEN [w EXCEPT !.done = TRUE]
  ELSE IF fill_budget(w.iters)
  THEN [w EXCEPT !.done = TRUE, !.iters = @ + 1]
  ELSE LET r == fill_read(TRUE, w)
       IN IF w.s.m_video_load_mar THEN r
          ELSE ct_fill_parse(r, b, r.s.m_video_word)

\* n iterations of the while (1), first half then second half
RECURSIVE fill_walk(_, _, _, _)
fill_walk(isC, w, b, n) ==
  IF n = 0 \/ w.done THEN w
  ELSE IF n = 1 THEN (IF isC THEN ct_fill_step(w, b) ELSE b_fill_step(w, b))
  ELSE LET half == fill_walk(isC, w, b, n \div 2)
       IN IF half.done THEN half
          ELSE fill_walk(isC, half, b, n - (n \div 2))

\* Iterations of the while (1) that a row fetch within its limit cannot exceed
FillFuel == 2 * MAX_WORD_PER_ROW + 2

\* video_fill_buff(buff_idx). Every second iteration at least reads a word,
\* so FillFuel iterations exceed what the limit on reads allows; a fetch that
\* has not taken a break by then never returns (hung). reads, cells and eol
\* log the fetch: the words read, the cells written, an EOL found; filled is
\* the buffer the fetch writes.
video_fill_buff(isC, s, b) ==
  LET w == fill_walk(isC,
                     [s |-> [s EXCEPT !.m_video_buff[b].full = FALSE,
                                      !.reads = 0, !.cells = {}, !.eol = FALSE,
                                      !.stored = 0, !.filled = b],
                      char_idx |-> 0, iters |-> 0, done |-> FALSE],
                     b, FillFuel)
  IN [w.s EXCEPT !.hung = ~w.done]

\* video_fill_buff(!m_video_buff_idx): the buffer a fetch is started on, idx
\* being the index after the swap
\* Variant: the fetch is started on the buffer at the index
fill_target_shown(idx) == idx

fill_target(idx) == ~idx

\* ---------------------------------------------------------- scanline render
\* m_bitmap: the pens of the scanline rendered last, at the columns sampled
Columns == {0, 79, 80, 100, 101, 639, 640, 719}

\* m_chargen[ addr ] & 0x7f and m_optional_chargen[ addr ] & 0x7f: a character
\* generator that holds the row pattern chargen in every cell
\* The 16-bit pixels of cell i on line_in_row. is770: hp9845c_state
alpha_pixels(s, b, line_in_row, i, is770) ==
  LET attrs == CellRead(s.m_video_buff[b].attrs, i)
      raw == IF (line_in_row = 14 /\ BIT(attrs, 3))
                \/ (line_in_row = 12 /\ BIT(s.frame, 3) /\ BIT(attrs, 0))
             THEN 65535
             ELSE IF BIT(s.frame, 4) /\ BIT(attrs, 2) THEN 0
             ELSE (s.chargen % 128) * 2
  IN IF BIT(attrs, 1) THEN NOT16(raw) ELSE raw

\* hp9845b_state::video_render_buff; shown is the buffer it reads
b_video_render_buff(s, video_scanline, line_in_row, b) ==
  LET t == [s EXCEPT !.m_video_blanked = @ \/ ~s.m_video_buff[b].full,
                     !.nonfull = @ \/ ~s.m_video_buff[b].full,
                     !.shown = b]
  IN IF t.m_video_blanked
     THEN [t EXCEPT !.blank = TRUE, !.alpha_at = {}, !.cursor_at = {},
                    !.bitmap = [x \in Columns |-> 0]]
     ELSE LET on == {x \in Columns :
                       BIT(alpha_pixels(t, b, line_in_row, x \div 9, FALSE), x % 9)}
          IN [t EXCEPT !.blank = FALSE, !.alpha_at = on, !.cursor_at = {},
                       !.bitmap = [x \in Columns |-> IF x \in on THEN 2 ELSE 0]]

\* hp9845b_state::graphic_video_render. greads: the words of graphic memory
\* the scanline reads.
b_graphic_video_render(s, video_scanline) ==
  LET yc == video_scanline + 34 = s.m_gv_cursor_y + 6
      yw == s.m_gv_cursor_fs
            \/ (video_scanline + 34 >= s.m_gv_cursor_y + 2
                /\ video_scanline + 34 <= s.m_gv_cursor_y + 10)
      blink == s.m_gv_cursor_fs \/ BIT(s.frame, 3)
      mem_idx == 36 * (video_scanline - GVIDEO_VBEND)
      xs == {x \in Columns : x < GVIDEO_HPIXELS}
      xc(x) == x + 69 = s.m_gv_cursor_x + 6
      xw(x) == s.m_gv_cursor_fs
               \/ (x + 69 >= s.m_gv_cursor_x + 2 /\ x + 69 <= s.m_gv_cursor_x + 10)
      cur == {x \in xs : blink /\ ((xw(x) /\ yc) \/ (yw /\ xc(x) /\ s.m_gv_cursor_gc))}
  IN [s EXCEPT !.greads = {<< 0, mem_idx + k >> : k \in 0..((GVIDEO_HPIXELS - 1) \div 16)},
               !.cursor_at = cur, !.alpha_at = {}, !.blank = FALSE,
               !.bitmap = [x \in Columns |->
                  IF x \in cur THEN 3
                  ELSE IF x \in xs
                          /\ BIT(MemRead(s.m_graphic_mem, 0, mem_idx + (x \div 16)), 15 - (x % 16))
                       THEN 1 ELSE 0]]

\* hp9845b_state::scanline_timer
b_scanline_timer(s0, video_scanline) ==
  LET s == [s0 EXCEPT !.cursor_at = {}, !.alpha_at = {}, !.greads = {}] IN
  IF s.m_graphic_sel
  THEN IF video_scanline >= GVIDEO_VBEND /\ video_scanline < GVIDEO_VBSTART
       THEN b_graphic_video_render(s, video_scanline)
       ELSE s
  ELSE IF video_scanline < VIDEO_ACTIVE_SCANLINES
  THEN LET row == video_scanline \div VIDEO_CHAR_HEIGHT
           line_in_row == video_scanline - row * VIDEO_CHAR_HEIGHT
           t == IF line_in_row = 0
                THEN video_fill_buff(FALSE,
                       [s EXCEPT !.m_video_buff_idx = ~@, !.toggles = @ + 1, !.rows = @ + 1],
                       fill_target(~s.m_video_buff_idx))
                ELSE s
       IN IF t.hung THEN t
          ELSE b_video_render_buff(t, video_scanline, line_in_row, t.m_video_buff_idx)
  ELSE s

\* pen_alpha, pen_cursor
pen_alpha(rgb) == 8 + rgb
pen_cursor(rgb) == 16 + rgb

\* hp9845c_state::graphic_video_render; x: a column of the graphic screen
c_graphic_pen(s, mem_idx, x) ==
  LET m == s.m_gv_music_memory
      bit(n) == IF BIT(m, n) THEN 1 ELSE 0
      pen0 == bit(0) + 2 * bit(3) + 4 * bit(6)
      pen1 == bit(1) + 2 * bit(4) + 4 * bit(7)
      pen2 == bit(2) + 2 * bit(5) + 4 * bit(8)
      on(p) == BIT(MemRead(s.m_graphic_mem, p, mem_idx + (x \div 16)), 15 - (x % 16))
      or3(a, c, d) == CHOOSE v \in 0..7 :
                        \A n \in 0..2 : BIT(v, n) = (BIT(a, n) \/ BIT(c, n) \/ BIT(d, n))
  IN or3(IF on(0) THEN pen0 ELSE 0, IF on(1) THEN pen1 ELSE 0, IF on(2) THEN pen2 ELSE 0)

c_graphic_video_render(s, video_scanline) ==
  LET lp_cursor == s.m_gv_lp_cursor_x < VIDEO_TOT_HPIXELS /\ s.m_gv_lp_cursor_y < GVIDEO_VPIXELS
      yc == IF lp_cursor THEN video_scanline = s.m_gv_lp_cursor_y + 24
            ELSE video_scanline + 42 = s.m_gv_cursor_y
      yw == IF lp_cursor
            THEN s.m_gv_lp_cursor_fs
                 \/ (video_scanline >= s.m_gv_lp_cursor_y
                     /\ video_scanline <= s.m_gv_lp_cursor_y + 49)
            ELSE s.m_gv_cursor_fs
                 \/ (video_scanline + 50 > s.m_gv_cursor_y
                     /\ video_scanline + 50 < s.m_gv_cursor_y + 7)
                 \/ (video_scanline + 50 > s.m_gv_cursor_y + 9
                     /\ video_scanline + 50 < s.m_gv_cursor_y + 16)
      blink == lp_cursor \/ s.m_gv_cursor_fs \/ s.m_gv_cursor_gc \/ BIT(s.frame, 3)
      mem_idx == get_gv_mem_addr(0, video_scanline)
      L == VIDEO_770_ALPHA_L_LIM
      xs == {x \in 0..(GVIDEO_HPIXELS - 1) : L + x \in Columns}
      xc(x) == IF lp_cursor THEN x + L = s.m_gv_lp_cursor_x
               ELSE s.m_gv_cursor_gc /\ x + 61 = s.m_gv_cursor_x
      \* (x + L - 25) <= m_gv_lp_cursor_x is an unsigned comparison
      xw(x) == IF lp_cursor
               THEN s.m_gv_lp_cursor_fs
                    \/ (x + 24 + L >= s.m_gv_lp_cursor_x
                        /\ (x + L - 25) % (2 ^ 32) <= s.m_gv_lp_cursor_x)
               ELSE s.m_gv_cursor_gc
                    /\ (s.m_gv_cursor_fs
                        \/ (x + 69 > s.m_gv_cursor_x /\ x + 53 < s.m_gv_cursor_x
                            /\ (x + 62 < s.m_gv_cursor_x \/ x + 60 > s.m_gv_cursor_x)))
      cur == {x \in xs : blink /\ ((xw(x) /\ yc) \/ (yw /\ xc(x) /\ (s.m_gv_cursor_gc \/ lp_cursor)))}
  IN [s EXCEPT !.greads = {<< p, mem_idx + k >> : p \in 0..2, k \in 0..((GVIDEO_HPIXELS - 1) \div 16)},
               !.cursor_at = {L + x : x \in cur},
               !.bitmap = [c \in Columns |->
                  IF c - L \in cur
                  THEN (IF lp_cursor THEN pen_cursor(7) ELSE pen_cursor(s.m_gv_cursor_color))
                  ELSE IF c - L \in xs THEN c_graphic_pen(s, mem_idx, c - L)
                  ELSE s.bitmap[c]]]

\* The alpha pixel of the three-plane controller overlays the graphic screen
\* Variant: the pixel drawn by graphic_video_render is kept where it is a
\* cursor pixel
alpha_over_under_cursor(s, c, pen) == IF c \in s.cursor_at THEN s.bitmap[c] ELSE pen

alpha_over(s, c, pen) == pen

\* hp9845c_state::video_render_buff
c_video_render_buff(s, video_scanline, line_in_row, b) ==
  LET t == [s EXCEPT !.m_video_blanked = @ \/ ~s.m_video_buff[b].full,
                     !.nonfull = @ \/ ~s.m_video_buff[b].full,
                     !.shown = b]
      zone(c) == t.m_graphic_sel /\ c >= VIDEO_770_ALPHA_L_LIM /\ c < VIDEO_770_ALPHA_R_LIM
  IN IF t.m_video_blanked \/ ~t.m_alpha_sel
     THEN [t EXCEPT !.blank = TRUE, !.alpha_at = {},
                    !.bitmap = [c \in Columns |-> IF zone(c) THEN t.bitmap[c] ELSE pen_alpha(0)]]
     ELSE LET on == {c \in Columns :
                       BIT(alpha_pixels(t, b, line_in_row, c \div 9, TRUE), c % 9)}
              color(c) == (CellRead(t.m_video_buff[b].attrs, c \div 9) \div 16) % 8
          IN [t EXCEPT !.blank = FALSE, !.alpha_at = on,
                       !.bitmap = [c \in Columns |->
                          IF zone(c)
                          THEN (IF c \in on THEN alpha_over(t, c, pen_alpha(color(c)))
                                ELSE t.bitmap[c])
                          ELSE IF c \in on THEN pen_alpha(color(c)) ELSE pen_alpha(0)]]

\* hp9845c_state::scanline_timer
c_scanline_timer(s0, video_scanline) ==
  LET s == [s0 EXCEPT !.cursor_at = {}, !.alpha_at = {}, !.greads = {}]
      visible == video_scanline >= VIDEO_770_VBEND /\ video_scanline < VIDEO_770_VBSTART
      g == IF s.m_graphic_sel /\ visible
           THEN c_graphic_video_render(s, video_scanline - VIDEO_770_VBEND)
           ELSE s
  IN IF ~visible THEN g
     ELSE LET row == (video_scanline - VIDEO_770_VBEND) \div VIDEO_CHAR_HEIGHT
              line_in_row == (video_scanline - VIDEO_770_VBEND) - row * VIDEO_CHAR_HEIGHT
              t == IF line_in_row = 0
                   THEN video_fill_buff(TRUE,
                          [g EXCEPT !.m_video_buff_idx = ~@, !.toggles = @ + 1, !.rows = @ + 1],
                          fill_target(~g.m_video_buff_idx))
                   ELSE g
          IN IF t.hung THEN t
             ELSE c_video_render_buff(t, video_scanline, line_in_row, t.m_video_buff_idx)

\* m_video_blanked = false at the start of the vertical blank
\* Variant: the blanking of the frame that ended is kept
vblank_blanked_kept(s) == s.m_video_blanked

vblank_blanked(s) == FALSE

\* m_video_buff_idx = !m_video_buff_idx at the start of the vertical blank
\* Variant: the index is left as it is
vblank_buff_idx_same(s) == s.m_video_buff_idx

vblank_buff_idx(s) == ~s.m_video_buff_idx

\* vblank_w(true), the row fetch of both variants: the video part of the
\* start of the vertical blank. frames, toggles and rows count the starts of
\* vertical blank, the toggles of the buffer index and the rows begun since
\* the last start; frame_toggles and frame_rows hold the counts of the frame
\* that ended.
vblank_start(isC, s) ==
  video_fill_buff(isC,
    [s EXCEPT !.m_video_mar = IF isC THEN ct_set_video_mar(0) ELSE b_set_video_mar(0),
              !.m_video_load_mar = TRUE,
              !.m_video_first_mar = TRUE,
              !.m_video_byte_idx = IF isC THEN @ ELSE FALSE,
              !.m_video_blanked = vblank_blanked(s),
              !.m_video_buff_idx = vblank_buff_idx(s),
              !.halt = TRUE,
              !.frame = @ + 1,
              !.nonfull = FALSE,
              !.frames = @ + 1,
              !.frame_toggles = s.toggles, !.frame_rows = s.rows,
              !.toggles = 1, !.rows = 0],
    fill_target(vblank_buff_idx(s)))

\* ------------------------------------------------------------ reset, video
\* hp9845_base_state::machine_reset, the part on the graphics controller
base_machine_reset(s) ==
  [s EXCEPT !.halt = FALSE,
            !.m_video_load_mar = FALSE,
            !.m_video_first_mar = FALSE,
            !.m_video_byte_idx = FALSE,
            !.m_video_buff_idx = FALSE,
            !.m_video_blanked = FALSE,
            !.m_graphic_sel = FALSE,
            !.m_gv_fsm_state = GV_STAT_RESET,
            !.m_gv_int_en = FALSE,
            !.m_gv_dma_en = FALSE]

b_machine_reset(s) ==
  b_update_graphic_bits([base_machine_reset(s) EXCEPT !.m_video_mar = b_set_video_mar(0),
                                                      !.m_video_attr = 0])

c_machine_reset(s) ==
  LET t == [base_machine_reset(s) EXCEPT
              !.m_alpha_sel = TRUE,
              !.m_gv_sk_en = FALSE,
              !.m_gv_gr_en = FALSE,
              !.m_gv_opt_en = FALSE,
              !.m_gv_dsa_en = FALSE,
              !.m_gv_lp_status = FALSE,
              !.m_gv_sk_status = FALSE,
              !.m_gv_lp_cursor_x = 944,
              !.m_gv_lp_cursor_y = 50,
              !.m_gv_lp_cursor_fs = FALSE,
              !.m_gv_lp_en = FALSE,
              !.m_gv_last_cmd = 0,
              !.m_gv_word_x_position = 0,
              !.m_gv_word_y_position = 0,
              !.m_gv_memory_control = 0,
              !.m_gv_line_type_area_fill = 0,
              !.m_gv_line_type_mask = 65535,
              !.m_gv_repeat_count = 0,
              !.m_gv_xpt = 0,
              !.m_gv_ypt = 0,
              !.m_gv_last_xpt = 0,
              !.m_gv_last_ypt = 0,
              !.m_gv_lp_selftest = FALSE,
              !.m_gv_lp_xwindow = FALSE,
              !.m_gv_lp_ywindow = FALSE,
              !.m_gv_lp_interlace = FALSE,
              !.m_gv_lp_vblank = FALSE,
              !.m_gv_lp_1sthit = FALSE,
              !.m_gv_lp_vbint = FALSE,
              !.m_gv_lp_fullbright = FALSE,
              !.m_gv_lp_threshold = FALSE,
              !.m_gv_lp_x = 0,
              !.m_gv_lp_y = 0,
              !.m_gv_lp_sw = FALSE,
              !.m_gv_lp_int_en = FALSE]
  IN [ct_update_graphic_bits(t) EXCEPT
        !.m_video_mar = ct_set_video_mar(0),
        !.m_gv_music_memory = 273,
        !.m_gv_cursor_color = 7,
        !.m_gv_plane = 0,
        !.m_gv_plane_wrap = FALSE]

\* vblank_w(state = true), hp9845b_state: the row fetch started here reads the
\* first word of the display list (word) and sets the graphic mode from it.
b_vblank_w(s, word) == [s EXCEPT !.m_graphic_sel = ~BIT(word, 15)]

\* vblank_w, hp9845ct_state: word as above; lp: the light pen inputs
c_vblank_w(s, state, word, lp) ==
  IF state
  THEN LET t == [s EXCEPT !.m_graphic_sel = BIT(word, 15),
                          !.m_alpha_sel = BIT(word, 14),
                          !.m_gv_lp_vblank = TRUE,
                          !.m_gv_lp_xwindow = FALSE,
                          !.m_gv_lp_ywindow = FALSE,
                          !.m_gv_lp_sw = lp.sw,
                          !.m_gv_lp_x = IF lp.x > VIDEO_TOT_HPIXELS - 1
                                        THEN VIDEO_TOT_HPIXELS - 1 ELSE lp.x,
                          !.m_gv_lp_y = IF lp.y > GVIDEO_VPIXELS - 1
                                        THEN GVIDEO_VPIXELS - 1 ELSE lp.y]
       IN ct_update_graphic_bits(compute_lp_data(t))
  ELSE [s EXCEPT !.m_gv_lp_vblank = FALSE]

\* hp9845b_state::vblank_w with the row fetch
b_vblank_w_fetch(s, state) ==
  IF state THEN vblank_start(FALSE, s) ELSE [s EXCEPT !.halt = FALSE]

\* hp9845ct_state::vblank_w with the row fetch; lp: the light pen inputs
c_vblank_w_fetch(s, state, lp) ==
  IF state
  THEN LET t == vblank_start(TRUE, s)
       IN IF t.hung THEN t
          ELSE c_vblank_w(t, TRUE, ReadWord(s.ram, ct_set_video_mar(0)), lp)
  ELSE c_vblank_w([s EXCEPT !.halt = FALSE], FALSE, 0, lp)

\* ------------------------------------------------------------------ state
VARIABLES
  variant,   \* "B": hp9845b_state (one plane), "C": hp9845c_state (three planes)
  gv,        \* the fields of the driver object, the timer and the PPU lines
  hpos,      \* m_screen->hpos()
  last_op,   \* the handler that ran last, its arguments and the word it returned
  nops       \* host and video events so far

vars == << variant, gv, hpos, last_op, nops >>

\* The object as allocated (cleared), before machine_reset
Cleared ==
  [ m_gv_fsm_state |-> GV_STAT_RESET, m_gv_cmd |-> 0, m_gv_int_en |-> FALSE,
    m_gv_dma_en |-> FALSE, m_gv_data_w |-> 0, m_gv_data_r |-> 0, m_gv_io_counter |-> 0,
    m_gv_cursor_w |-> 0, m_gv_cursor_x |-> 0, m_gv_cursor_y |-> 0,
    m_gv_cursor_gc |-> FALSE, m_gv_cursor_fs |-> FALSE,
    m_graphic_sel |-> FALSE, m_alpha_sel |-> FALSE, m_graphic_mem |-> << >>,
    m_gv_sk_en |-> FALSE, m_gv_gr_en |-> FALSE, m_gv_opt_en |-> FALSE,
    m_gv_dsa_en |-> FALSE, m_gv_lp_status |-> FALSE, m_gv_sk_status |-> FALSE,
    m_gv_lp_cursor_x |-> 0, m_gv_lp_cursor_y |-> 0, m_gv_lp_cursor_fs |-> FALSE,
    m_gv_lp_en |-> FALSE, m_gv_last_cmd |-> 0, m_gv_word_x_position |-> 0,
    m_gv_word_y_position |-> 0, m_gv_memory_control |-> 0,
    m_gv_line_type_area_fill |-> 0, m_gv_line_type_mask |-> 0, m_gv_repeat_count |-> 0,
    m_gv_xpt |-> 0, m_gv_ypt |-> 0, m_gv_last_xpt |-> 0, m_gv_last_ypt |-> 0,
    m_gv_lp_data |-> << 0, 0, 0 >>, m_gv_lp_selftest |-> FALSE,
    m_gv_lp_xwindow |-> FALSE, m_gv_lp_ywindow |-> FALSE, m_gv_lp_interlace |-> FALSE,
    m_gv_lp_vblank |-> FALSE, m_gv_lp_1sthit |-> FALSE, m_gv_lp_vbint |-> FALSE,
    m_gv_lp_fullbright |-> FALSE, m_gv_lp_threshold |-> FALSE, m_gv_lp_x |-> 0,
    m_gv_lp_y |-> 0, m_gv_lp_sw |-> FALSE, m_gv_lp_reg_cnt |-> 0,
    m_gv_lp_int_en |-> FALSE, m_gv_music_memory |-> 0, m_gv_cursor_color |-> 0,
    m_gv_plane |-> 0, m_gv_plane_wrap |-> FALSE,
    gv_timer |-> FALSE, flg |-> FALSE, irq |-> FALSE, dmar |-> FALSE,
    hung |-> FALSE, path |-> << >>, xfers |-> << >>, plots |-> << >>,
    m_video_mar |-> 0, m_video_word |-> 0, m_video_load_mar |-> FALSE,
    m_video_first_mar |-> FALSE, m_video_byte_idx |-> FALSE, m_video_attr |-> 0,
    m_video_buff_idx |-> FALSE, m_video_blanked |-> FALSE,
    m_video_buff |-> [b \in BOOLEAN |-> EmptyBuff], halt |-> FALSE,
    ram |-> [mem |-> << >>, rest |-> 0], chargen |-> 0, frame |-> 0, vpos |-> 0,
    frames |-> 0, toggles |-> 0, rows |-> 0, frame_toggles |-> 0, frame_rows |-> 0,
    nonfull |-> FALSE, blank |-> FALSE, bitmap |-> [c \in Columns |-> 0],
    cursor_at |-> {}, alpha_at |-> {}, greads |-> {}, reads |-> 0, cells |-> {},
    eol |-> FALSE, stored |-> 0, filled |-> FALSE, shown |-> FALSE ]

\* ------------------------------------------------------------------ inputs
\* Beam positions sampled along a scanline: line start, first position without
\* memory access, the position the arbiter timer is set for.
HPosSamples == << 0, 34 - GVIDEO_HCNT_OFF, 628 >>

NextHPos(h) ==
  LET i == CHOOSE k \in 1..Len(HPosSamples) : HPosSamples[k] = h
  IN HPosSamples[(i % Len(HPosSamples)) + 1]

\* Words written to R4 / R6
DataWords == { 65535, 64509, 65532 }

\* Words written to R5, single-plane controller
B_R5Words == { 8, 9, 10, 12, 4, 0, 40, 44, 136, 72 }

\* Words written to R5, three-plane controller
C_R5Words == { 256, 257, 258, 264, 266, 269, 288, 289, 385, 397, 320, 0, 1216, 1030, 1031,
               1286 }

\* First word of the display list at vertical blank
VideoWords == { 16384, 49152 }
B_VideoWords == { 0, 32768 }

\* Display lists of the single-plane controller, as host memory. The word at
\* the base is the inverted address of the first row, bit 15 set for alpha;
\* rest is the word of every address the list does not name. In turn: rows of
\* text ended by EOL; 80 characters a row and never an EOL; an NWA back to
\* itself; two rows, then an NWA back to itself; more attribute commands than
\* one fetch reads, then EOL; graphic display selected.
B_Lists ==
  { [mem |-> (94208 :> 65519) @@ (94224 :> 16706) @@ (94225 :> 17345), rest |-> 49601],
    [mem |-> (94208 :> 65519), rest |-> 8224],
    [mem |-> (94208 :> 65519) @@ (94224 :> 49152) @@ (94225 :> 65519), rest |-> 49601],
    [mem |-> (94208 :> 65519) @@ (94224 :> 16833) @@ (94225 :> 17089)
             @@ (94226 :> 49152) @@ (94227 :> 65517), rest |-> 49601],
    [mem |-> (94208 :> 65519) @@ [a \in 94224..94450 |-> 32896], rest |-> 49601],
    [mem |-> (94208 :> 32751), rest |-> 49601] }

\* Display lists of the three-plane controller: bit 15 of the first word
\* selects graphics, bit 14 alpha. In turn: rows of text ended by EOL; 80
\* characters a row and never an EOL; an NWA back to itself; two rows, then an
\* NWA back to itself; more NOP words than one fetch reads, then EOL; a first
\* row past the end of the buffer; graphics and alpha; graphics only.
C_Lists ==
  { [mem |-> (90112 :> 24559) @@ (90128 :> 28737) @@ (90129 :> 65), rest |-> 32800],
    [mem |-> (90112 :> 24559), rest |-> 32],
    [mem |-> (90112 :> 24559) @@ (90128 :> 32768) @@ (90129 :> 24559), rest |-> 32800],
    [mem |-> (90112 :> 24559) @@ (90128 :> 65) @@ (90129 :> 32800) @@ (90130 :> 32800)
             @@ (90131 :> 32768) @@ (90132 :> 24556), rest |-> 32800],
    [mem |-> (90112 :> 24559) @@ [a \in 90128..90350 |-> 49152], rest |-> 32800],
    [mem |-> (90112 :> 16895), rest |-> 32800],
    [mem |-> (90112 :> 57327), rest |-> 32800],
    [mem |-> (90112 :> 40943), rest |-> 32800] }

\* Row patterns of the character generator
Glyphs == {0, 85}

\* Light pen inputs at vertical blank
LpInputs == { [x |-> 100, y |-> 100, sw |-> FALSE] }

WrittenWords(isC, offset) ==
  IF offset = 1 THEN (IF isC THEN C_R5Words ELSE B_R5Words)
  ELSE IF offset = 3 THEN {0}
  ELSE DataWords

\* What last_op records of a handler run: its name and arguments, the word it
\* returned, the FSM state it found (from), and, for the timer callback, the
\* handler that ran before it (prev).
NoOp == [op |-> "none", offset |-> 0, data |-> 0, from |-> GV_STAT_RESET]

Op(name, offset, data, res) ==
  [op |-> name, offset |-> offset, data |-> data, res |-> res,
   from |-> gv.m_gv_fsm_state, prev |-> NoOp]

\* The object as a handler finds it: path, xfers and plots log what the run
\* of one handler does (the FSM states passed, the words of graphic memory
\* transferred, the calls of plot)
entry == [gv EXCEPT !.path = << >>, !.xfers = << >>, !.plots = << >>]

\* ------------------------------------------------------------------ actions
Init ==
  /\ variant \in {"B", "C"}
  /\ gv = IF variant = "B" THEN b_machine_reset(Cleared) ELSE c_machine_reset(Cleared)
  /\ hpos = 0
  /\ last_op = [op |-> "machine_reset", offset |-> 0, data |-> 0, res |-> 0,
                from |-> GV_STAT_RESET, prev |-> NoOp]
  /\ nops = 0

Host == ~gv.hung /\ nops < MaxOps

BGraphicW ==
  /\ variant = "B" /\ Host
  /\ \E offset \in 0..3 : \E data \in WrittenWords(FALSE, offset) :
       /\ gv' = b_graphic_w(entry, offset, data, hpos)
       /\ last_op' = Op("graphic_w", offset, data, 0)
  /\ nops' = nops + 1
  /\ UNCHANGED << variant, hpos >>

BGraphicR ==
  /\ variant = "B" /\ Host
  /\ \E offset \in 0..3 :
       LET r == b_graphic_r(entry, offset, hpos)
       IN /\ gv' = r.s
          /\ last_op' = Op("graphic_r", offset, 0, r.res)
  /\ nops' = nops + 1
  /\ UNCHANGED << variant, hpos >>

CGraphicW ==
  /\ variant = "C" /\ Host
  /\ \E offset \in 0..3 : \E data \in WrittenWords(TRUE, offset) :
       /\ gv' = c_graphic_w(entry, offset, data, hpos)
       /\ last_op' = Op("graphic_w", offset, data, 0)
  /\ nops' = nops + 1
  /\ UNCHANGED << variant, hpos >>

CGraphicR ==
  /\ variant = "C" /\ Host
  /\ \E offset \in 0..3 :
       LET r == c_graphic_r(entry, offset, hpos)
       IN /\ gv' = r.s
          /\ last_op' = Op("graphic_r", offset, 0, r.res)
  /\ nops' = nops + 1
  /\ UNCHANGED << variant, hpos >>

\* The beam moves on; the arbiter timer, when set, expires at position 628
Tick ==
  /\ ~gv.hung
  /\ ~(gv.gv_timer /\ NextHPos(hpos) = 628)
  /\ hpos' = NextHPos(hpos)
  /\ UNCHANGED << variant, gv, last_op, nops >>

\* gv_timer: the timer callback
GvTimer ==
  /\ ~gv.hung
  /\ gv.gv_timer /\ NextHPos(hpos) = 628
  /\ hpos' = 628
  /\ LET s == [entry EXCEPT !.gv_timer = FALSE]
     IN gv' = IF variant = "B" THEN b_advance_gv_fsm(s, FALSE, FALSE, 628)
                               ELSE c_advance_gv_fsm(s, FALSE, FALSE, 628)
  /\ last_op' = [Op("gv_timer", 0, 0, 0) EXCEPT
                   !.prev = [op |-> last_op.op, offset |-> last_op.offset,
                             data |-> last_op.data, from |-> last_op.from]]
  /\ UNCHANGED << variant, nops >>

\* vblank_w(true) at the start of the vertical blank
BVblank ==
  /\ variant = "B" /\ Host /\ hpos = 0
  /\ \E word \in B_VideoWords :
       /\ gv' = b_vblank_w(entry, word)
       /\ last_op' = Op("vblank_w", 1, word, 0)
  /\ nops' = nops + 1
  /\ UNCHANGED << variant, hpos >>

\* vblank_w(true) at the start and vblank_w(false) at the end of the vertical blank
CVblank ==
  /\ variant = "C" /\ Host /\ hpos = 0
  /\ \/ /\ ~gv.m_gv_lp_vblank
        /\ \E word \in VideoWords : \E lp \in LpInputs :
             /\ gv' = c_vblank_w(entry, TRUE, word, lp)
             /\ last_op' = Op("vblank_w", 1, word, 0)
     \/ /\ gv.m_gv_lp_vblank
        /\ gv' = c_vblank_w(entry, FALSE, 0, CHOOSE lp \in LpInputs : TRUE)
        /\ last_op' = Op("vblank_w", 0, 0, 0)
  /\ nops' = nops + 1
  /\ UNCHANGED << variant, hpos >>

MachineReset ==
  /\ Host /\ nops > 0
  /\ gv' = IF variant = "B" THEN b_machine_reset(entry) ELSE c_machine_reset(entry)
  /\ last_op' = Op("machine_reset", 0, 0, 0)
  /\ nops' = nops + 1
  /\ UNCHANGED << variant, hpos >>

Next ==
  \/ BGraphicW \/ BGraphicR \/ CGraphicW \/ CGraphicR
  \/ Tick \/ GvTimer \/ BVblank \/ CVblank \/ MachineReset

Spec == Init /\ [][Next]_vars

TypeOK ==
  /\ variant \in {"B", "C"}
  /\ gv.m_gv_fsm_state \in FsmStates
  /\ hpos \in {HPosSamples[k] : k \in 1..Len(HPosSamples)}
  /\ nops \in 0..MaxOps

\* ------------------------------------------------------------------ claims
MemStates == {GV_STAT_WAIT_MEM_0, GV_STAT_WAIT_MEM_1, GV_STAT_WAIT_MEM_2}

\* The FSM states the documentation calls ready
B_ReadyStates == {GV_STAT_WAIT_DS_0, GV_STAT_WAIT_DS_1, GV_STAT_WAIT_DS_2}
C_ReadyStates == {GV_STAT_WAIT_DS_0, GV_STAT_WAIT_TRIG_0, GV_STAT_WAIT_DS_1,
                  GV_STAT_WAIT_DS_2, GV_STAT_WAIT_TRIG_1}

\* The last handler was a RESET event
IsReset(o) ==
  \/ o.op = "machine_reset"
  \/ o.op = "graphic_w" /\ o.offset = 1 /\ BIT(o.data, 5)

\* The last handler called advance_gv_fsm
RanFsm ==
  \/ last_op.op \in {"graphic_w", "gv_timer"}
  \/ last_op.op = "graphic_r" /\ last_op.offset \in {0, 2}

\* C1: every run of advance_gv_fsm (data strobe, trigger, R5 write, timer
\* wake-up) returns after finitely many iterations of its loop, on the
\* single-plane and on the three-plane controller, also when the command was
\* changed while the FSM rested in WAIT_DS_2 or WAIT_TRIG_1.
C1_AdvanceReturns == ~gv.hung

\* C2 (as claimed): after every operation ready (flg) is asserted iff the FSM is
\* in a documented ready state with its enable set (single-plane: WAIT_DS_0/1/2;
\* three-plane: graphics-enable and WAIT_DS_0/TRIG_0/DS_1/DS_2/TRIG_1); it is
\* never asserted in WAIT_MEM_0/1/2.
C2_ReadyIffReadyState ==
  ~gv.hung =>
    /\ gv.flg <=> IF variant = "B"
                  THEN gv.m_gv_fsm_state \in B_ReadyStates
                  ELSE gv.m_gv_gr_en /\ gv.m_gv_fsm_state \in C_ReadyStates
    /\ gv.m_gv_fsm_state \in MemStates => ~gv.flg

\* C2 (amended): on the three-plane controller ready is asserted iff a light pen
\* service request is pending (light pen interrupt enabled and light pen status
\* set), whatever the FSM state, or graphics-enable is set and the FSM is in
\* WAIT_DS_0/TRIG_0/DS_1/DS_2/TRIG_1; on the single-plane controller iff the
\* FSM is in WAIT_DS_0/1/2, so never in a WAIT_MEM state.
C2_ReadyIffReadyStateOrLightPen ==
  ~gv.hung =>
    IF variant = "B"
    THEN gv.flg <=> gv.m_gv_fsm_state \in B_ReadyStates
    ELSE gv.flg <=> \/ gv.m_gv_lp_int_en /\ gv.m_gv_lp_status
                    \/ gv.m_gv_gr_en /\ gv.m_gv_fsm_state \in C_ReadyStates

\* C2 witness: the three-plane controller presents ready for the light pen
\* while the FSM rests in a WAIT_MEM state
C2_Witness ==
  /\ variant = "C" /\ ~gv.hung /\ gv.flg
  /\ gv.m_gv_fsm_state \in MemStates
  /\ gv.m_gv_lp_int_en /\ gv.m_gv_lp_status

\* C3: after every register access, timer wake-up, vertical blank and reset the
\* interrupt request equals ready AND interrupt-enable AND NOT DMA-enable and
\* the DMA request equals ready AND DMA-enable, on the current flags.
C3_RequestsFollowFlags ==
  ~gv.hung =>
    /\ gv.irq = (gv.flg /\ gv.m_gv_int_en /\ ~gv.m_gv_dma_en)
    /\ gv.dmar = (gv.flg /\ gv.m_gv_dma_en)

\* The state changes the FSM loop of the last handler made, as pairs
PathEdges ==
  { e \in { << gv.path[i], gv.path[i + 1] >> : i \in 1..(Len(gv.path) - 1) } : e[1] # e[2] }

ClaimedEdges ==
  { << GV_STAT_WAIT_DS_0, GV_STAT_WAIT_MEM_0 >>, << GV_STAT_WAIT_DS_0, GV_STAT_WAIT_TRIG_0 >>,
    << GV_STAT_WAIT_DS_0, GV_STAT_WAIT_TRIG_1 >>, << GV_STAT_WAIT_TRIG_0, GV_STAT_WAIT_DS_0 >>,
    << GV_STAT_WAIT_TRIG_0, GV_STAT_WAIT_DS_2 >>, << GV_STAT_WAIT_MEM_0, GV_STAT_WAIT_DS_1 >>,
    << GV_STAT_WAIT_DS_1, GV_STAT_WAIT_MEM_0 >>, << GV_STAT_WAIT_DS_2, GV_STAT_WAIT_TRIG_1 >>,
    << GV_STAT_WAIT_TRIG_1, GV_STAT_WAIT_MEM_1 >>, << GV_STAT_WAIT_TRIG_1, GV_STAT_WAIT_MEM_2 >>,
    << GV_STAT_WAIT_MEM_1, GV_STAT_WAIT_DS_2 >>, << GV_STAT_WAIT_MEM_2, GV_STAT_WAIT_DS_0 >> }

\* C4 (as claimed): apart from forced resets every FSM state change is an edge
\* of the documented transition table, and the state is always an enumerated one.
C4_EdgesOfTable ==
  /\ gv.m_gv_fsm_state \in FsmStates
  /\ PathEdges \subseteq ClaimedEdges

\* C4 (amended): as claimed, with one more edge on the three-plane controller:
\* WAIT_TRIG_1 -> WAIT_DS_0, taken by load-endpoints when the X word has the
\* draw bit (bit 10) clear (a move).
C4_EdgesOfTableAndMove ==
  /\ gv.m_gv_fsm_state \in FsmStates
  /\ PathEdges \subseteq (ClaimedEdges \cup { << GV_STAT_WAIT_TRIG_1, GV_STAT_WAIT_DS_0 >> })
  /\ << GV_STAT_WAIT_TRIG_1, GV_STAT_WAIT_DS_0 >> \in PathEdges
       => variant = "C" /\ gv.m_gv_cmd = 13 /\ ~BIT(gv.m_gv_data_w, 10)

\* C4 witness: a handler of the three-plane controller took WAIT_TRIG_1 -> WAIT_DS_0
C4_Witness ==
  /\ ~gv.hung
  /\ << GV_STAT_WAIT_TRIG_1, GV_STAT_WAIT_DS_0 >> \in PathEdges
  /\ << GV_STAT_WAIT_DS_2, GV_STAT_WAIT_TRIG_1 >> \in PathEdges

\* advance_gv_fsm(false, false) run again on the state a handler left
Rerun ==
  IF variant = "B" THEN b_advance_gv_fsm(gv, FALSE, FALSE, hpos)
                   ELSE c_advance_gv_fsm(gv, FALSE, FALSE, hpos)

\* C5: a handler that returns with the FSM not suspended in a WAIT_MEM state
\* leaves it at a fixpoint: running the FSM again at once, without strobe or
\* trigger, changes neither the FSM state nor the IoCursor nor bitplane memory.
C5_HandlerLeavesFixpoint ==
  (RanFsm /\ ~gv.hung /\ gv.m_gv_fsm_state \notin MemStates) =>
    /\ Rerun.m_gv_fsm_state = gv.m_gv_fsm_state
    /\ Rerun.m_gv_io_counter = gv.m_gv_io_counter
    /\ Rerun.m_gv_plane = gv.m_gv_plane
    /\ Rerun.m_graphic_mem = gv.m_graphic_mem

\* The step is the timer callback (the only step that moves the beam while the
\* timer is set)
TimerStep == gv.gv_timer /\ hpos' # hpos

\* The step is a host or video handler
HostStep == nops' # nops

\* The first iteration of the FSM loop at the wake-up, taken alone
WokenOnce ==
  IF variant = "B" THEN b_advance_iter([gv EXCEPT !.gv_timer = FALSE], FALSE, FALSE, 628).s
                   ELSE c_advance_iter([gv EXCEPT !.gv_timer = FALSE], FALSE, FALSE, 628).s

\* What C6 says of a wake-up that finds the FSM suspended, when enabled holds
WakeUpCompletes(enabled) ==
  (TimerStep /\ gv.m_gv_fsm_state \in MemStates /\ enabled) =>
    /\ ~gv'.hung
    /\ Len(gv'.path) >= 2
    /\ gv'.path[1] = gv.m_gv_fsm_state
    /\ gv'.m_gv_fsm_state # gv.m_gv_fsm_state
    /\ Cardinality({i \in DOMAIN gv'.path : gv'.path[i] = gv.m_gv_fsm_state}) = 1
    /\ gv'.m_graphic_mem = WokenOnce.m_graphic_mem
    /\ gv.m_gv_fsm_state # GV_STAT_WAIT_MEM_2 =>
         /\ gv'.m_gv_io_counter = WokenOnce.m_gv_io_counter
         /\ gv'.m_gv_plane = WokenOnce.m_gv_plane
         /\ gv'.m_gv_data_r = WokenOnce.m_gv_data_r
    /\ gv.m_gv_fsm_state = GV_STAT_WAIT_MEM_0 =>
         gv'.m_gv_data_r = MemRead(gv.m_graphic_mem, gv.m_gv_plane, gv.m_gv_io_counter)

\* C6 (as claimed): a wake-up that finds the FSM suspended in WAIT_MEM_0/1/2
\* resumes it in that state, takes it out of that state and performs the
\* pending access exactly once.
C6_WakeUpCompletes == [][WakeUpCompletes(TRUE)]_vars

\* C6 (amended): as claimed, provided that on the three-plane controller
\* graphics-enable is still set when the wake-up fires.
C6_WakeUpCompletesIfEnabled == [][WakeUpCompletes(variant = "B" \/ gv.m_gv_gr_en)]_vars

\* C6 witness: a wake-up has completed a deferred word write
C6_Witness ==
  /\ last_op.op = "gv_timer" /\ last_op.from = GV_STAT_WAIT_MEM_1
  /\ ~gv.hung /\ gv.m_gv_fsm_state = GV_STAT_WAIT_DS_2
  /\ DOMAIN gv.m_graphic_mem # {}

\* C7: a RESET event cancels any pending arbiter wake-up: after the reset
\* handler the timer is set only if that handler itself suspended the FSM in
\* a WAIT_MEM state.
C7_ResetCancelsWakeUp ==
  (IsReset(last_op) /\ ~gv.hung /\ gv.gv_timer) =>
    (gv.path # << >> /\ gv.m_gv_fsm_state \in MemStates)

\* C8: a RESET event that finds a word write or a vector/fill deferred in
\* WAIT_MEM_1 or WAIT_MEM_2 discards it: the reset leaves bitplane memory as it
\* is and the FSM out of WAIT_MEM_1/2, and a wake-up that then finds the FSM
\* out of WAIT_MEM_1/2 modifies no bitplane word.
C8_ResetDiscardsDeferred ==
  [][ /\ (HostStep /\ IsReset(last_op')
            /\ gv.m_gv_fsm_state \in {GV_STAT_WAIT_MEM_1, GV_STAT_WAIT_MEM_2}) =>
           /\ gv'.m_graphic_mem = gv.m_graphic_mem
           /\ gv'.m_gv_fsm_state \notin {GV_STAT_WAIT_MEM_1, GV_STAT_WAIT_MEM_2}
      /\ (TimerStep /\ gv.m_gv_fsm_state \notin {GV_STAT_WAIT_MEM_1, GV_STAT_WAIT_MEM_2}) =>
           gv'.m_graphic_mem = gv.m_graphic_mem ]_vars

\* C8 witness: the wake-up set for a deferred write or vector has fired after
\* the reset that discarded it
C8_Witness ==
  /\ last_op.op = "gv_timer"
  /\ IsReset(last_op.prev)
  /\ last_op.prev.from \in {GV_STAT_WAIT_MEM_1, GV_STAT_WAIT_MEM_2}
  /\ ~gv.hung

\* The register writes of seq, each an << offset, data >> pair, applied in order
RECURSIVE HostWrites(_, _)
HostWrites(s, seq) ==
  IF seq = << >> THEN s
  ELSE HostWrites(IF variant = "B" THEN b_graphic_w(s, seq[1][1], seq[1][2], hpos)
                                   ELSE c_graphic_w(s, seq[1][1], seq[1][2], hpos),
                  Tail(seq))

\* The FSM rests in WAIT_DS_0 with graphics memory available
IdleAvailable ==
  /\ ~gv.hung
  /\ gv.m_gv_fsm_state = GV_STAT_WAIT_DS_0
  /\ time_to_gv_mem_availability(gv, hpos) = 0

\* R5 words that load write-words (0000) with graphics-enable: plain, with
\* DMA enable, with interrupt enable
C_WriteWordsR5 == {256, 320, 384}

\* The word position after << p, a >> in plane-cycled order
NextWord(p, a) == IF p < 2 THEN << p + 1, a >> ELSE << 0, a + 1 >>

\* The IoCursor a write-words command starts from: the current one when the
\* previous command was write-words too, the restored one otherwise
StartPlane ==
  IF gv.m_gv_last_cmd = 0 THEN gv.m_gv_plane
  ELSE IF gv.m_gv_plane_wrap THEN 2
  ELSE IF gv.m_gv_plane > 0 THEN gv.m_gv_plane - 1 ELSE 0
StartAddr ==
  IF gv.m_gv_last_cmd = 0 THEN gv.m_gv_io_counter
  ELSE ((gv.m_gv_word_y_position * 35) + gv.m_gv_word_x_position) % GVIDEO_MEM_SIZE

B_WriteWordsR5 == {8, 72, 136}

\* C10 (as claimed): single-plane, FSM at WAIT_DS_0, memory available:
\* R5 := 1000, R4 := d, R7 written leaves the FSM in WAIT_DS_2 with the
\* IoCursor one word further (modulo 16384) than before the sequence.
C10_WriteWordsAdvances ==
  (variant = "B" /\ IdleAvailable) =>
    \A w \in B_WriteWordsR5 : \A d \in DataWords :
      LET t == HostWrites(gv, << <<1, w>>, <<0, d>>, <<3, 0>> >>)
      IN /\ t.m_gv_fsm_state = GV_STAT_WAIT_DS_2
         /\ t.m_gv_io_counter = (gv.m_gv_io_counter + 1) % GVIDEO_MEM_SIZE

\* C10 (amended): the sequence leaves the FSM in WAIT_DS_2 with the IoCursor
\* loaded with the complement of d (low 14 bits) and bitplane memory
\* untouched; a further word e written to R4 is stored at that address and
\* leaves the FSM in WAIT_DS_2 with the IoCursor one word further (modulo
\* 16384).
C10_WriteWordsLoadsThenAdvances ==
  (variant = "B" /\ IdleAvailable) =>
    \A w \in B_WriteWordsR5 : \A d \in DataWords : \A e \in DataWords :
      LET t == HostWrites(gv, << <<1, w>>, <<0, d>>, <<3, 0>> >>)
          u == HostWrites(t, << <<0, e>> >>)
          a == (65535 - d) % GVIDEO_MEM_SIZE
      IN /\ ~t.hung /\ ~u.hung
         /\ t.m_gv_fsm_state = GV_STAT_WAIT_DS_2
         /\ t.m_gv_io_counter = a
         /\ t.m_graphic_mem = gv.m_graphic_mem
         /\ u.m_gv_fsm_state = GV_STAT_WAIT_DS_2
         /\ u.m_graphic_mem = MemWrite(gv.m_graphic_mem, 0, a, e)
         /\ u.m_gv_io_counter = (a + 1) % GVIDEO_MEM_SIZE

\* C10 witness: the sequence and a further word have run: the word lies at
\* the loaded address and the IoCursor is one word further
C10_Witness ==
  /\ variant = "B" /\ ~gv.hung
  /\ last_op.op = "graphic_w" /\ last_op.offset = 0
  /\ last_op.from = GV_STAT_WAIT_DS_2
  /\ gv.m_gv_cmd = 8
  /\ gv.m_gv_fsm_state = GV_STAT_WAIT_DS_2
  /\ gv.m_gv_io_counter > 0
  /\ MemRead(gv.m_graphic_mem, 0, gv.m_gv_io_counter - 1) = last_op.data

\* A register read applied to s: [s: the state left, res: the word returned]
HostRead(s, offset) ==
  IF variant = "B" THEN b_graphic_r(s, offset, hpos) ELSE c_graphic_r(s, offset, hpos)

\* R5 words that load read-words: plain, with DMA enable, with interrupt enable
ReadWordsR5 == IF variant = "B" THEN {12, 76, 140} ELSE {257, 321, 385}

\* The IoCursor of s as << plane, address >> (plane 0 on the single-plane controller)
Cursor(s) == << IF variant = "B" THEN 0 ELSE s.m_gv_plane, s.m_gv_io_counter >>

\* The IoCursor a read-words command starts from: on the three-plane
\* controller the restored one when the previous command was not read-words
ReadStart ==
  IF variant = "B" \/ gv.m_gv_last_cmd = 1 THEN Cursor(gv)
  ELSE << IF gv.m_gv_plane_wrap THEN 2
          ELSE IF gv.m_gv_plane > 0 THEN gv.m_gv_plane - 1 ELSE 0,
          ((gv.m_gv_word_y_position * 35) + gv.m_gv_word_x_position) % GVIDEO_MEM_SIZE >>

\* The word position the controller steps to from c
StepWord(c) ==
  IF variant = "B" THEN << 0, (c[2] + 1) % GVIDEO_MEM_SIZE >>
  ELSE IF c = << 2, GVIDEO_ADDR_MASK >> THEN c
  ELSE NextWord(c[1], c[2])

\* The FSM rests in WAIT_DS_0, enabled, with graphics memory available
IdleEnabled == IdleAvailable /\ (variant = "C" => gv.m_gv_gr_en)

\* C11 (as claimed): FSM at WAIT_DS_0, IoCursor at c, memory available:
\* R5 := read-words, then one read of R4 returns the word stored at c and
\* leaves the IoCursor one word position after c.
C11_ReadWordsAdvancesOne ==
  (IdleEnabled /\ ReadStart = Cursor(gv)) =>
    \A w \in ReadWordsR5 :
      LET r == HostRead(HostWrites(gv, << <<1, w>> >>), 0)
      IN /\ r.res = MemRead(gv.m_graphic_mem, ReadStart[1], ReadStart[2])
         /\ Cursor(r.s) = StepWord(ReadStart)

\* C11 (amended): with c the IoCursor the read-words command starts from,
\* the read of R4 returns the word stored at c and leaves the IoCursor two
\* word positions after c (the word at c is fetched when the command is
\* loaded, the read fetches the next one), the FSM in WAIT_DS_1 and bitplane
\* memory unchanged.
C11_ReadWordsAdvancesTwo ==
  IdleEnabled =>
    \A w \in ReadWordsR5 :
      LET r == HostRead(HostWrites(gv, << <<1, w>> >>), 0)
      IN /\ ~r.s.hung
         /\ r.res = MemRead(gv.m_graphic_mem, ReadStart[1], ReadStart[2])
         /\ Cursor(r.s) = StepWord(StepWord(ReadStart))
         /\ r.s.m_gv_fsm_state = GV_STAT_WAIT_DS_1
         /\ r.s.m_graphic_mem = gv.m_graphic_mem

\* C11 witness: read-words was loaded and R4 read once; the word returned is
\* a word written before and lies two word positions behind the IoCursor
C11_Witness ==
  /\ ~gv.hung
  /\ last_op.op = "graphic_r" /\ last_op.offset = 0
  /\ last_op.from = GV_STAT_WAIT_DS_1
  /\ gv.m_gv_fsm_state = GV_STAT_WAIT_DS_1
  /\ last_op.res \in DataWords
  /\ \E c \in DOMAIN gv.m_graphic_mem :
       /\ gv.m_graphic_mem[c] = last_op.res
       /\ Cursor(gv) = StepWord(StepWord(c))

\* The word transfers of the host writes seq made on the current state, in
\* order, as << plane, address >>
TransfersOf(seq) == HostWrites([gv EXCEPT !.xfers = << >>], seq).xfers

\* R5 := write-words, R4 := d, then R5 := read-words with the command reset
\* bit: the command changes after one word and the I/O address is not reloaded
WriteThenRead(d) == << <<1, 256>>, <<0, d>>, <<1, 289>> >>

\* C13: three-plane controller, FSM at WAIT_DS_0, memory available: when the
\* command is changed from write-words to read-words after one written word
\* without reloading the I/O address, the word read next is in the plane that
\* follows the written one in the order 0,1,2,0 (none skipped, none repeated).
C13_RestoreKeepsPlaneOrder ==
  (variant = "C" /\ IdleAvailable) =>
    \A d \in DataWords :
      LET x == TransfersOf(WriteThenRead(d))
      IN /\ Len(x) = 2
         /\ x[2][1] = (x[1][1] + 1) % 3

TrigStates == { GV_STAT_WAIT_TRIG_0, GV_STAT_WAIT_TRIG_1 }

\* C19 (as claimed): whenever the interrupt-enable flag is clear the trigger
\* condition is satisfied without R7: no handler leaves the FSM resting in
\* WAIT_TRIG_0 or WAIT_TRIG_1.
C19_AutoTriggerWithoutInt ==
  (~gv.hung /\ ~gv.m_gv_int_en) => gv.m_gv_fsm_state \notin TrigStates

\* The trigger condition of the controller holds without a write to R7
AutoTrigger ==
  IF variant = "B" THEN gv.m_gv_dma_en \/ ~BIT(gv.m_gv_cmd, 2)
  ELSE gv.m_gv_gr_en /\ (gv.m_gv_int_en \/ ~BIT(gv.m_gv_cmd, 0))

\* C19 (amended): no handler leaves the FSM resting in WAIT_TRIG_0 or
\* WAIT_TRIG_1 when, on the three-plane controller (graphics enabled), the
\* interrupt-enable flag is set or bit 0 of the command is clear, or, on the
\* single-plane controller, the DMA-enable flag is set or bit 2 of the
\* command is clear.
C19_AutoTriggerByGate ==
  (~gv.hung /\ AutoTrigger) => gv.m_gv_fsm_state \notin TrigStates

\* C19 witness: with interrupt-enable set, a write of R4 under the load end
\* points command took the three-plane FSM through WAIT_TRIG_0 without R7
C19_Witness ==
  /\ variant = "C" /\ ~gv.hung
  /\ gv.m_gv_int_en /\ gv.m_gv_cmd = 13
  /\ last_op.op = "graphic_w" /\ last_op.offset = 0
  /\ \E i \in DOMAIN gv.path : gv.path[i] = GV_STAT_WAIT_TRIG_0
  /\ gv.m_gv_fsm_state = GV_STAT_WAIT_DS_2

\* What C20 compares of the state an access leaves and the word it returns
Observed(s, res) ==
  [res |-> res, hung |-> s.hung, fsm |-> s.m_gv_fsm_state, cursor |-> Cursor(s),
   mem |-> s.m_graphic_mem, lp_reg_cnt |-> s.m_gv_lp_reg_cnt, dma_en |-> s.m_gv_dma_en]

ObservedRead(r) == Observed(r.s, r.res)

\* The current state with DMA enable cleared
DmaCleared == [gv EXCEPT !.m_gv_dma_en = FALSE]

\* C20: a read or a write of R6 leaves the same FSM state, IoCursor, bitplane
\* memory and light pen register counter, and returns the same word, as the
\* same access of R4 made with DMA enable cleared first; DMA enable is false
\* after an access of R6.
C20_R6LikeR4DmaCleared ==
  ~gv.hung =>
    /\ LET r6 == ObservedRead(HostRead(gv, 2))
       IN r6 = ObservedRead(HostRead(DmaCleared, 0)) /\ ~r6.dma_en
    /\ \A d \in DataWords :
         LET w6 == Observed(HostWrites(gv, << <<2, d>> >>), 0)
         IN w6 = Observed(HostWrites(DmaCleared, << <<0, d>> >>), 0) /\ ~w6.dma_en

\* C20 witness: a word read from R6 in a read-words stream was the word
\* stored in graphic memory, and DMA enable is clear
C20_Witness ==
  /\ ~gv.hung
  /\ last_op.op = "graphic_r" /\ last_op.offset = 2
  /\ last_op.res \in DataWords
  /\ gv.m_gv_fsm_state = GV_STAT_WAIT_DS_1
  /\ ~gv.m_gv_dma_en

\* The step is a data strobe (read or write of R4 / R6), a trigger (write of
\* R7) or a wake-up by the arbiter timer
StrobeTriggerOrWake ==
  \/ /\ HostStep
     /\ last_op'.op \in {"graphic_w", "graphic_r"}
     /\ last_op'.offset \in {0, 2, 3}
  \/ /\ TimerStep
     /\ last_op'.op = "gv_timer"

\* C30: three-plane controller, graphics enable clear: a data strobe, a
\* trigger or a timer wake-up leaves the FSM state, the IoCursor (address,
\* plane, wrap flag) and every word of bitplane memory unchanged.
C30_DisabledLeavesFsm ==
  [][(variant = "C" /\ ~gv.m_gv_gr_en /\ StrobeTriggerOrWake) =>
       /\ gv'.m_gv_fsm_state = gv.m_gv_fsm_state
       /\ gv'.m_gv_io_counter = gv.m_gv_io_counter
       /\ gv'.m_gv_plane = gv.m_gv_plane
       /\ gv'.m_gv_plane_wrap = gv.m_gv_plane_wrap
       /\ gv'.m_graphic_mem = gv.m_graphic_mem
       /\ ~gv'.hung]_vars

\* C30 witness: with graphics enable clear, a word written to R4 left the
\* FSM in WAIT_DS_2 where a write-words stream had brought it, or a timer
\* wake-up left it suspended in WAIT_MEM_0
C30_Witness ==
  /\ variant = "C" /\ ~gv.m_gv_gr_en /\ ~gv.hung
  /\ \/ /\ last_op.op = "graphic_w" /\ last_op.offset = 0
        /\ last_op.from = GV_STAT_WAIT_DS_2
        /\ gv.m_gv_fsm_state = GV_STAT_WAIT_DS_2
        /\ gv.m_graphic_mem # << >>
     \/ /\ last_op.op = "gv_timer"
        /\ gv.m_gv_fsm_state = GV_STAT_WAIT_MEM_0

\* Pointer inputs of the light pen at a vertical blank: far from and on the
\* light pen cursor after reset (945, 74), button released or pressed
PointerInputs ==
  [x : {100, 945}, y : {100, 74}, sw : BOOLEAN]

\* The vertical blank that starts on state s with pointer input lp
VblankWith(s, lp) == c_vblank_w(s, TRUE, 16384, lp)

\* The three words YHI, XLEFT, YLO the host reads from R4 after it wrote
\* R5 := 0x406 (light pen enabled, register 6 selected)
HitWords(s) ==
  LET r1 == HostRead(HostWrites(s, << <<1, 1030>> >>), 0)
      r2 == HostRead(r1.s, 0)
      r3 == HostRead(r2.s, 0)
  IN << r1.res, r2.res, r3.res >>

\* Light pen self-test is selected when the vertical blank starts
SelfTestSelected ==
  variant = "C" /\ ~gv.hung /\ gv.m_gv_lp_selftest /\ ~gv.m_gv_lp_vblank

\* C27 (as claimed): with light pen self-test selected at a vertical blank,
\* the three hit words returned afterwards are the same for all pointer
\* inputs x, y and button.
C27_SelfTestIgnoresPointer ==
  SelfTestSelected =>
    \A p \in PointerInputs : \A q \in PointerInputs :
      HitWords(VblankWith(gv, p)) = HitWords(VblankWith(gv, q))

\* C27 (amended): the three hit words are the same for all pointer positions
\* x, y with the same button input; YHI carries the button in bit 14.
C27_SelfTestIgnoresPosition ==
  SelfTestSelected =>
    \A p \in PointerInputs :
      /\ \A q \in PointerInputs :
           q.sw = p.sw => HitWords(VblankWith(gv, p)) = HitWords(VblankWith(gv, q))
      /\ BIT(HitWords(VblankWith(gv, p))[1], 14) = p.sw

\* C27 witness: after self-test was selected, a vertical blank began and
\* register 6 was selected, R4 returned YHI computed from the light pen
\* cursor (y = 50 after reset)
C27_Witness ==
  /\ variant = "C" /\ ~gv.hung
  /\ last_op.op = "graphic_r" /\ last_op.offset = 0
  /\ gv.m_gv_lp_en /\ gv.m_gv_lp_reg_cnt = 5
  /\ gv.m_gv_lp_xwindow /\ gv.m_gv_lp_ywindow
  /\ last_op.res % 512 = 511 - (50 + 16)

\* The controller state of s other than bitplane memory: every field of the
\* object with the memory and the logs of the last handler left out
Registers(s) ==
  [s EXCEPT !.m_graphic_mem = << >>, !.path = << >>, !.xfers = << >>, !.plots = << >>]

\* The object machine_reset leaves when it runs on the object as allocated
ResetDefaults ==
  IF variant = "B" THEN b_machine_reset(Cleared) ELSE c_machine_reset(Cleared)

\* C28: after machine_reset every piece of controller state other than
\* bitplane memory holds its default value, whatever the state before the
\* reset was (command register, IoCursor, data words, graphics cursor and
\* light pen register counter included).
C28_ResetRestoresDefaults ==
  (last_op.op = "machine_reset" /\ ~gv.hung) => Registers(gv) = Registers(ResetDefaults)

\* ------------------------------------------ operations of the vector board
\* FnSpec applies one operation of the three-plane controller (a word
\* transfer, plot, draw_line, pattern_fill) to an object whose registers were
\* loaded by commands; last_op holds the call and its arguments.

\* Largest endpoint coordinates of the lines and boxes drawn
MaxX == 10
MaxY == 3

\* The three-plane object after machine_reset, graphics enabled
Enabled == [c_machine_reset(Cleared) EXCEPT !.m_gv_gr_en = TRUE]

Call(name, args) == [op |-> name, args |-> args, done |-> FALSE, res |-> 0]

\* Addresses at both ends of a plane
EdgeAddresses == {0, 1, GVIDEO_ADDR_MASK - 1, GVIDEO_ADDR_MASK}

\* A word transfer is pending in WAIT_MEM_0 (read words) or WAIT_MEM_1 (write
\* words, clear/set words) with the IoCursor at (p, a)
TransferInit ==
  \E p \in 0..2 : \E a \in EdgeAddresses : \E cmd \in {0, 1, 2} : \E wrap \in BOOLEAN :
    /\ gv = [Enabled EXCEPT !.m_gv_plane = p,
                            !.m_gv_io_counter = a,
                            !.m_gv_plane_wrap = wrap,
                            !.m_gv_cmd = cmd,
                            !.m_gv_last_cmd = cmd,
                            !.m_gv_data_w = 64509,
                            !.m_gv_memory_control = 127,
                            !.m_gv_fsm_state = IF cmd = 1 THEN GV_STAT_WAIT_MEM_0
                                               ELSE GV_STAT_WAIT_MEM_1]
    /\ last_op = Call("transfer", << p, a >>)
    /\ hpos = 0

\* Beam positions around the two edges of the window without memory access,
\* and the ends of a scanline
ArbiterHPos == {0, 32, 33, 34, 300, 626, 627, 628, 726}

\* The arbiter is asked with the beam at hpos, graphics displayed or not
ArbiterInit ==
  \E sel \in BOOLEAN : \E hp \in ArbiterHPos :
    /\ gv = [Enabled EXCEPT !.m_graphic_sel = sel]
    /\ hpos = hp
    /\ last_op = Call("time_to_gv_mem_availability", << sel, hp >>)

FnArbiter ==
  /\ last_op.op = "time_to_gv_mem_availability" /\ ~last_op.done
  /\ last_op' = [last_op EXCEPT !.done = TRUE,
                                !.res = time_to_gv_mem_availability(gv, hpos)]
  /\ nops' = nops + 1
  /\ UNCHANGED << variant, gv, hpos >>

\* A word transfer is pending in WAIT_MEM_0 / WAIT_MEM_1 or a vector in
\* WAIT_MEM_2 with the beam at hpos, graphics displayed or not
WaitMemInit ==
  \E sel \in BOOLEAN : \E hp \in ArbiterHPos :
  \E st \in {GV_STAT_WAIT_MEM_0, GV_STAT_WAIT_MEM_1, GV_STAT_WAIT_MEM_2} :
    /\ gv = [Enabled EXCEPT !.m_graphic_sel = sel,
                            !.m_gv_cmd = CASE st = GV_STAT_WAIT_MEM_0 -> 1
                                           [] st = GV_STAT_WAIT_MEM_1 -> 0
                                           [] OTHER -> 13,
                            !.m_gv_last_cmd = CASE st = GV_STAT_WAIT_MEM_0 -> 1
                                                [] st = GV_STAT_WAIT_MEM_1 -> 0
                                                [] OTHER -> 13,
                            !.m_gv_line_type_area_fill = 16,
                            !.m_gv_fsm_state = st]
    /\ hpos = hp
    /\ last_op = Call("wait_mem", << sel, hp, st >>)

FnTransfer ==
  /\ last_op.op \in {"transfer", "wait_mem"} /\ ~last_op.done
  /\ gv' = c_advance_iter(gv, FALSE, FALSE, hpos).s
  /\ last_op' = [last_op EXCEPT !.done = TRUE]
  /\ nops' = nops + 1
  /\ UNCHANGED << variant, hpos >>

\* Pixels at the ends of a word and of the screen, and past the screen
PlotXs == {0, 15, 16, 559, 1023}
PlotYs == {0, 454, 1023}

\* The word of every plane that holds pixel (x, y) is clear or full
PlotMem(x, y, full) ==
  IF full
  THEN [k \in {<< p, (x \div 16 + y * 35) % GVIDEO_MEM_SIZE >> : p \in 0..2} |-> 65535]
  ELSE << >>

\* plot is called with memory control mc loaded; args = << x, y, draw_erase,
\* mc, full >>
PlotInit ==
  \E x \in PlotXs : \E y \in PlotYs : \E de \in BOOLEAN :
  \E mc \in 0..127 : \E full \in BOOLEAN :
    /\ gv = [Enabled EXCEPT !.m_gv_memory_control = mc,
                            !.m_graphic_mem = PlotMem(x, y, full)]
    /\ last_op = Call("plot", << x, y, de, mc, full >>)
    /\ hpos = 0

FnPlot ==
  /\ last_op.op = "plot" /\ ~last_op.done
  /\ gv' = plot(gv, last_op.args[1], last_op.args[2], last_op.args[3])
  /\ last_op' = [last_op EXCEPT !.done = TRUE]
  /\ nops' = nops + 1
  /\ UNCHANGED << variant, hpos >>

\* Repeat settings loaded with the line type (bits 5..8 of the register)
Repeats == 0..2

\* draw_line is called with x0 <= x1 (the vector generator normalizes), line
\* type idx with repeat setting r loaded by command 0xb and the repeat counter
\* as earlier lines left it; args = << x0, y0, x1, y1, idx, r, count >>
LineInit ==
  \E x0 \in 0..MaxX : \E x1 \in x0..MaxX : \E y0 \in 0..MaxY : \E y1 \in 0..MaxY :
  \E idx \in 0..7 : \E r \in Repeats : \E count \in 0..r :
    /\ gv = [Enabled EXCEPT !.m_gv_memory_control = 63,
                            !.m_gv_line_type_area_fill = 16 + idx + 32 * r,
                            !.m_gv_line_type_mask = m_line_type[idx + 1],
                            !.m_gv_repeat_count = count]
    /\ last_op = Call("draw_line", << x0, y0, x1, y1, idx, r, count >>)
    /\ hpos = 0

FnDrawLine ==
  /\ last_op.op = "draw_line" /\ ~last_op.done
  /\ gv' = draw_line(gv, last_op.args[1], last_op.args[2], last_op.args[3], last_op.args[4])
  /\ last_op' = [last_op EXCEPT !.done = TRUE]
  /\ nops' = nops + 1
  /\ UNCHANGED << variant, hpos >>

\* Area fill patterns: solid, two halftones, sparsest
FillPatterns == {0, 4, 8, 15}

\* pattern_fill is called with the corners in any order and area fill
\* pattern f loaded by command 0xb; args = << x0, y0, x1, y1, f >>
FillInit ==
  \E x0 \in 0..MaxX : \E x1 \in 0..MaxX : \E y0 \in 0..MaxY : \E y1 \in 0..MaxY :
  \E f \in FillPatterns :
    /\ gv = [Enabled EXCEPT !.m_gv_memory_control = 63,
                            !.m_gv_line_type_area_fill = f]
    /\ last_op = Call("pattern_fill", << x0, y0, x1, y1, f >>)
    /\ hpos = 0

FnPatternFill ==
  /\ last_op.op = "pattern_fill" /\ ~last_op.done
  /\ gv' = pattern_fill(gv, last_op.args[1], last_op.args[2], last_op.args[3], last_op.args[4])
  /\ last_op' = [last_op EXCEPT !.done = TRUE]
  /\ nops' = nops + 1
  /\ UNCHANGED << variant, hpos >>

\* Scanlines at the top of the screen, at the first and last line of the
\* graphic display of either controller, and at the start of the last text row
ScanLines == {7, 8, 16, 450, 454, 470}

\* scanline_timer is called with both row buffers full of one character with
\* attributes attr, the cursor loaded as a cross hair (fs) or a small cursor
\* through column 100 and the scanline 8 (16 on the single-plane controller),
\* and word w in every plane under column 100; args = << scanline, graphic,
\* alpha, blanked, w >>
ScanlineInit ==
  \E sl \in ScanLines : \E gsel \in BOOLEAN : \E alpha \in BOOLEAN : \E blanked \in BOOLEAN :
  \E fs \in BOOLEAN : \E g \in Glyphs : \E attr \in {112, 114} : \E w \in {0, 65535} :
    /\ variant \in {"B", "C"}
    /\ gv = [(IF variant = "B" THEN b_machine_reset(Cleared) ELSE c_machine_reset(Cleared))
              EXCEPT !.m_graphic_sel = gsel,
                     !.m_alpha_sel = alpha,
                     !.m_video_blanked = blanked,
                     !.m_video_buff =
                        [b \in BOOLEAN |->
                           [full |-> TRUE,
                            chars |-> [i \in 0..(VIDEO_CHAR_COLUMNS - 1) |-> 65],
                            attrs |-> [i \in 0..(VIDEO_CHAR_COLUMNS - 1) |-> attr]]],
                     !.chargen = g,
                     !.frame = 8,
                     !.m_gv_cursor_gc = TRUE,
                     !.m_gv_cursor_fs = fs,
                     !.m_gv_cursor_x = IF variant = "B" THEN 163 ELSE 81,
                     !.m_gv_cursor_y = IF variant = "B" THEN 44 ELSE 50,
                     !.m_graphic_mem =
                        IF w = 0 THEN << >>
                        ELSE [k \in {<< p, a >> : p \in 0..2,
                                                  a \in {35 * sl + 1,
                                                         36 * (sl - GVIDEO_VBEND) + 6}
                                                        \cap (0..GVIDEO_ADDR_MASK)} |-> w]]
    /\ last_op = Call("scanline_timer", << sl, gsel, alpha, blanked, w >>)
    /\ hpos = 0

FnScanline ==
  /\ last_op.op = "scanline_timer" /\ ~last_op.done
  /\ gv' = IF variant = "B" THEN b_scanline_timer(gv, last_op.args[1])
                            ELSE c_scanline_timer(gv, last_op.args[1])
  /\ last_op' = [last_op EXCEPT !.done = TRUE]
  /\ nops' = nops + 1
  /\ UNCHANGED << variant, hpos >>

\* video_fill_buff is called on a display list at the start of a frame or
\* inside the list, on either byte of the word read last; args = << b >>
FetchInit ==
  \E b \in BOOLEAN : \E start \in BOOLEAN : \E lsb \in BOOLEAN :
    /\ variant \in {"B", "C"}
    /\ \E ram \in (IF variant = "B" THEN B_Lists ELSE C_Lists) :
         gv = [(IF variant = "B" THEN b_machine_reset(Cleared) ELSE c_machine_reset(Cleared))
               EXCEPT !.ram = ram,
                      !.m_video_load_mar = start,
                      !.m_video_first_mar = start,
                      !.m_video_byte_idx = (variant = "B" /\ ~start /\ lsb),
                      !.m_video_word = IF lsb THEN 65 ELSE 0,
                      !.m_video_mar = @ + (IF start THEN 0 ELSE 16)]
    /\ last_op = Call("video_fill_buff", << b >>)
    /\ hpos = 0

FnFetch ==
  /\ last_op.op = "video_fill_buff" /\ ~last_op.done
  /\ gv' = video_fill_buff(variant = "C", gv, last_op.args[1])
  /\ last_op' = [last_op EXCEPT !.done = TRUE]
  /\ nops' = nops + 1
  /\ UNCHANGED << variant, hpos >>

\* The three-plane controller at the trigger of the X word of a load of end
\* points (command 0xd, trigger by interrupt enable): the word has bit 10 set
\* to draw and carries x complemented; y is the Y word loaded before it,
\* (lx, ly) the end point before; line type solid or area fill solid
EndPoints(draw, x, y, lx, ly, line) ==
  [Enabled EXCEPT !.m_gv_fsm_state = GV_STAT_WAIT_TRIG_1,
                  !.m_gv_cmd = 13,
                  !.m_gv_last_cmd = 13,
                  !.m_gv_int_en = TRUE,
                  !.m_gv_data_w = (IF draw THEN 65535 ELSE 64511) - x,
                  !.m_gv_ypt = y,
                  !.m_gv_last_xpt = lx,
                  !.m_gv_last_ypt = ly,
                  !.m_gv_memory_control = 63,
                  !.m_gv_line_type_area_fill = IF line THEN 16 ELSE 0,
                  !.m_graphic_mem = (<< 0, 0 >> :> 43690)]

\* Words the host can write to R4: all bits clear, all bits set, a pixel
FsmWords == {0, 65535, 32783}

\* advance_gv_fsm is called with a trigger in WAIT_TRIG_0 (load of the I/O
\* address from data word d) or at a memory access with the address counter
\* at a; on the three-plane controller also in WAIT_DS_0 with a read of words
\* that restores the address from the word position (x, y); args = << st, d, a >>.
\* On the three-plane controller also with a clear/set of words at its trigger
\* (WAIT_TRIG_1) or at its memory access (WAIT_MEM_1, the data word being d),
\* for every memory control word mc, the cursor at plane p of address a, where
\* a word lies; args = << st, d, a, p >>; and with the X word of a load of
\* end points at its trigger; args = << st, draw, x, y, lx, ly, line >>
FsmInit ==
  \E d \in FsmWords : \E a \in EdgeAddresses :
  \/
    /\ variant \in {"B", "C"}
    /\ IF variant = "B"
       THEN \E st \in {GV_STAT_WAIT_TRIG_0, GV_STAT_WAIT_MEM_0,
                        GV_STAT_WAIT_MEM_1, GV_STAT_WAIT_MEM_2} :
              /\ gv = [b_machine_reset(Cleared) EXCEPT
                         !.m_gv_fsm_state = st,
                         !.m_gv_cmd = CASE st = GV_STAT_WAIT_TRIG_0 -> 8
                                        [] st = GV_STAT_WAIT_MEM_0 -> 12
                                        [] st = GV_STAT_WAIT_MEM_1 -> 8
                                        [] OTHER -> 9,
                         !.m_gv_data_w = d,
                         !.m_gv_io_counter = a]
              /\ last_op = Call("advance_gv_fsm", << st, d, a >>)
       ELSE \E st \in {GV_STAT_WAIT_TRIG_0, GV_STAT_WAIT_DS_0} :
            \E cmd \in {8, 9} : \E x \in {0, 63} : \E y \in {0, 511} : \E p \in 0..2 :
              /\ gv = [Enabled EXCEPT
                         !.m_gv_fsm_state = st,
                         !.m_gv_cmd = IF st = GV_STAT_WAIT_TRIG_0 THEN cmd ELSE 1,
                         !.m_gv_last_cmd = cmd,
                         !.m_gv_data_w = d,
                         !.m_gv_word_x_position = x,
                         !.m_gv_word_y_position = y,
                         !.m_gv_plane = p,
                         !.m_gv_io_counter = a]
              /\ last_op = Call("advance_gv_fsm", << st, d, a >>)
    /\ hpos = 0
  \/ \E st \in {GV_STAT_WAIT_TRIG_1, GV_STAT_WAIT_MEM_1} : \E mc \in 0..127 : \E p \in 0..2 :
       /\ variant = "C"
       /\ gv = [Enabled EXCEPT
                  !.m_gv_fsm_state = st,
                  !.m_gv_cmd = 2,
                  !.m_gv_last_cmd = 2,
                  !.m_gv_data_w = d,
                  !.m_gv_memory_control = mc,
                  !.m_gv_plane = p,
                  !.m_gv_io_counter = a,
                  !.m_graphic_mem = (<< p, a >> :> 43690)]
       /\ last_op = Call("advance_gv_fsm", << st, d, a, p >>)
       /\ hpos = 0
  \/ /\ d = 0 /\ a = 0 /\ variant = "C"
     /\ \E draw \in BOOLEAN : \E line \in BOOLEAN :
        \E x \in 0..MaxX : \E y \in 0..MaxY : \E lx \in 0..MaxX : \E ly \in 0..MaxY :
          /\ gv = EndPoints(draw, x, y, lx, ly, line)
          /\ last_op = Call("advance_gv_fsm",
                            << GV_STAT_WAIT_TRIG_1, draw, x, y, lx, ly, line >>)
     /\ hpos = 0

FnFsm ==
  /\ last_op.op = "advance_gv_fsm" /\ ~last_op.done
  /\ gv' = IF variant = "B"
           THEN b_advance_gv_fsm(gv, FALSE, last_op.args[1] = GV_STAT_WAIT_TRIG_0, hpos)
           ELSE c_advance_gv_fsm(gv, FALSE, last_op.args[1] = GV_STAT_WAIT_TRIG_0, hpos)
  /\ last_op' = [last_op EXCEPT !.done = TRUE]
  /\ nops' = nops + 1
  /\ UNCHANGED << variant, hpos >>

FnInit ==
  /\ nops = 0
  /\ \/ /\ variant = "C"
        /\ \/ TransferInit
           \/ ArbiterInit
           \/ WaitMemInit
           \/ PlotInit
           \/ LineInit
           \/ FillInit
     \/ ScanlineInit
     \/ FetchInit
     \/ FsmInit

FnNext ==
  \/ FnTransfer \/ FnArbiter \/ FnPlot \/ FnDrawLine \/ FnPatternFill
  \/ FnScanline \/ FnFetch \/ FnFsm

FnSpec == FnInit /\ [][FnNext]_vars

\* The call of last_op has returned
Returned(name) == last_op.op = name /\ last_op.done

\* C12 (as claimed): every completed word transfer leaves the IoCursor at the
\* next position in the order (0, a), (1, a), (2, a), (0, a + 1), for every
\* address a in 0..16383.
C12_TransferAdvancesCyclic ==
  Returned("transfer") =>
    /\ gv.xfers = << last_op.args >>
    /\ Cursor(gv) = NextWord(last_op.args[1], last_op.args[2])

\* C12 (amended): as claimed for every address a below 16383; at address
\* 16383 the IoCursor steps from plane 0 to 1 to 2 and then stays at plane 2
\* of address 16383.
C12_TransferAdvancesOrStays ==
  Returned("transfer") =>
    /\ gv.xfers = << last_op.args >>
    /\ Cursor(gv) = IF last_op.args = << 2, GVIDEO_ADDR_MASK >> THEN last_op.args
                    ELSE NextWord(last_op.args[1], last_op.args[2])

\* C12 witness: a transfer at plane 2 has stepped the address
C12_Witness ==
  /\ Returned("transfer")
  /\ last_op.args = << 2, GVIDEO_ADDR_MASK - 1 >>
  /\ Cursor(gv) = << 0, GVIDEO_ADDR_MASK >>

\* The arguments of the plot call of last_op and what it found
PlotBit == 15 - (last_op.args[1] % 16)
PlotAddr == get_gv_mem_addr(last_op.args[1] \div 16, last_op.args[2])
PlotDraw == last_op.args[3]
PlotControl == last_op.args[4]
PlotBefore == IF last_op.args[5] THEN 65535 ELSE 0

\* Plane p holds word w where plot has acted, and nothing is changed elsewhere
PlaneWord(p) == MemRead(gv.m_graphic_mem, p, PlotAddr)

\* In plane p only the pixel bit may differ from before, and it reads v
PixelReads(p, v) ==
  /\ BIT(PlaneWord(p), PlotBit) = v
  /\ \A k \in 0..15 : k # PlotBit => (BIT(PlaneWord(p), k) = BIT(PlotBefore, k))

\* Words other than the addressed one are as before (clear)
OnlyAddressed == \A k \in DOMAIN gv.m_graphic_mem : k[2] = PlotAddr

\* C15: with the dominance flag set, after plot the pixel bit of every active
\* plane reads set exactly when the call is a draw and the plane's set-bit
\* is on, and clear otherwise.
C15_DominancePlot ==
  (Returned("plot") /\ BIT(PlotControl, 6)) =>
    /\ OnlyAddressed
    /\ \A p \in 0..2 :
         BIT(PlotControl, p) => PixelReads(p, PlotDraw /\ BIT(PlotControl, p + 3))

\* C15 witness: an erase under dominance has cleared a set pixel of plane 0
C15_Witness ==
  /\ Returned("plot")
  /\ BIT(PlotControl, 6) /\ BIT(PlotControl, 0) /\ ~PlotDraw
  /\ BIT(PlotBefore, PlotBit) /\ ~BIT(PlaneWord(0), PlotBit)

\* C16 (as claimed): with the dominance flag clear, after plot the pixel bit
\* of every active plane reads set after a draw and clear after an erase, and
\* inactive planes are as before.
C16_DirectPlot ==
  (Returned("plot") /\ ~BIT(PlotControl, 6)) =>
    /\ OnlyAddressed
    /\ \A p \in 0..2 :
         IF BIT(PlotControl, p) THEN PixelReads(p, PlotDraw)
         ELSE PlaneWord(p) = PlotBefore

\* C16 (amended): with the dominance flag clear, on every active plane a draw
\* sets the pixel bit when the plane's set-bit is on and clears it when the
\* set-bit is off, an erase leaves the pixel bit as it was; inactive planes
\* are as before.
C16_DirectPlotBySetBit ==
  (Returned("plot") /\ ~BIT(PlotControl, 6)) =>
    /\ OnlyAddressed
    /\ \A p \in 0..2 :
         IF BIT(PlotControl, p)
         THEN PixelReads(p, IF PlotDraw THEN BIT(PlotControl, p + 3)
                            ELSE BIT(PlotBefore, PlotBit))
         ELSE PlaneWord(p) = PlotBefore

\* C16 witness: without dominance a draw has set a clear pixel of plane 1
\* and left inactive plane 0 alone
C16_Witness ==
  /\ Returned("plot")
  /\ ~BIT(PlotControl, 6) /\ BIT(PlotControl, 1) /\ BIT(PlotControl, 4)
  /\ ~BIT(PlotControl, 0) /\ PlotDraw
  /\ ~BIT(PlotBefore, PlotBit) /\ BIT(PlaneWord(1), PlotBit)
  /\ PlaneWord(0) = PlotBefore

\* The points plotted by the call of last_op, in order
Points == [i \in DOMAIN gv.plots |-> << gv.plots[i][1], gv.plots[i][2] >>]

Min(a, b) == IF a < b THEN a ELSE b
Max(a, b) == IF a < b THEN b ELSE a
Dist(a, b) == IF a < b THEN b - a ELSE a - b

\* The normalized bounding box of the corners of the pattern_fill call
Box ==
  (Min(last_op.args[1], last_op.args[3])..Max(last_op.args[1], last_op.args[3]))
    \X (Min(last_op.args[2], last_op.args[4])..Max(last_op.args[2], last_op.args[4]))

\* C14: pattern_fill plots every pixel of the normalized bounding box of its
\* corners exactly once, in every row of the box, and plots nothing else.
C14_FillPlotsBoxOnce ==
  Returned("pattern_fill") =>
    /\ ~gv.hung
    /\ \A pt \in Box : Cardinality({i \in DOMAIN Points : Points[i] = pt}) = 1
    /\ \A i \in DOMAIN Points : Points[i] \in Box

\* C17: draw_line with x0 <= x1 returns, having plotted max(|x1-x0|, |y1-y0|)
\* + 1 points, the first (x0, y0), the last (x1, y1), consecutive points
\* at most 1 apart in each coordinate.
C17_LinePoints ==
  Returned("draw_line") =>
    LET n == Max(Dist(last_op.args[1], last_op.args[3]), Dist(last_op.args[2], last_op.args[4])) + 1
    IN /\ ~gv.hung
       /\ Len(Points) = n
       /\ Points[1] = << last_op.args[1], last_op.args[2] >>
       /\ Points[n] = << last_op.args[3], last_op.args[4] >>
       /\ \A i \in 1..(n - 1) :
            /\ Dist(Points[i][1], Points[i + 1][1]) <= 1
            /\ Dist(Points[i][2], Points[i + 1][2]) <= 1

\* C17 witness: the line from (0, 0) to (10, 0) has been drawn with its 11
\* points (0..10, 0), and so has a steep line going up
C17_Witness ==
  /\ Returned("draw_line")
  /\ \/ /\ last_op.args[1] = 0 /\ last_op.args[2] = 0
        /\ last_op.args[3] = MaxX /\ last_op.args[4] = 0
        /\ Points = [i \in 1..(MaxX + 1) |-> << i - 1, 0 >>]
     \/ /\ last_op.args[1] = 0 /\ last_op.args[2] = MaxY
        /\ last_op.args[3] = 1 /\ last_op.args[4] = 0
        /\ Len(Points) = MaxY + 1 /\ Points[Len(Points)] = << 1, 0 >>

\* The 16-bit word m rotated left by k bits
Rotl(m, k) == ((m * (2 ^ (k % 16))) % 65536) + (m \div (2 ^ (16 - (k % 16))))

\* The dash mask, the repeat setting and the repeat counter at the call
LineMask == m_line_type[last_op.args[5] + 1]
LineRepeat == last_op.args[6]
LineCount == last_op.args[7]

\* After the draw_line call the mask has made RotationsAfter(k) steps when k
\* points are plotted: the k-th point was plotted with the top bit of the mask
\* rotated RotationsAfter(k - 1) times, and the mask is left rotated
\* RotationsAfter(n) times after the n points of the line.
Dashed(RotationsAfter(_)) ==
  /\ \A k \in DOMAIN gv.plots :
       gv.plots[k][3] = BIT(Rotl(LineMask, RotationsAfter(k - 1)), 15)
  /\ gv.m_gv_line_type_mask = Rotl(LineMask, RotationsAfter(Len(gv.plots)))

OnePerPoint(k) == k
OnePerRepeats(k) == (LineCount + k) \div (LineRepeat + 1)

\* C18 (as claimed): during draw_line the dash mask is rotated left by one
\* bit per plotted point, for every line type and repeat setting.
C18_RotatesPerPoint ==
  Returned("draw_line") => Dashed(OnePerPoint)

\* C18 (amended): during draw_line the repeat counter counts the plotted
\* points and the dash mask is rotated left by one bit each time the counter
\* passes the repeat setting N, once per N + 1 plotted points.
C18_RotatesPerRepeats ==
  Returned("draw_line") =>
    /\ Dashed(OnePerRepeats)
    /\ gv.m_gv_repeat_count = (LineCount + Len(gv.plots)) % (LineRepeat + 1)

\* C18 witness: a line of at least 4 points drawn in line type 6 with repeat
\* setting 1 left the mask rotated by half the number of its points
C18_Witness ==
  /\ Returned("draw_line")
  /\ last_op.args[5] = 6 /\ LineRepeat = 1 /\ LineCount = 0
  /\ Len(gv.plots) >= 4 /\ Len(gv.plots) % 2 = 0
  /\ gv.m_gv_line_type_mask = Rotl(LineMask, Len(gv.plots) \div 2)
  /\ gv.m_gv_line_type_mask # LineMask

\* C29: the arbiter returns zero delay exactly when graphics is not displayed
\* or the beam is at a horizontal position below 33 or from 627 on; with
\* graphics not displayed a pending memory access is made at once, wherever
\* the beam is, and the timer is not set.
C29_ArbiterZeroIffWindow ==
  /\ Returned("time_to_gv_mem_availability") =>
       ((last_op.res = 0) <=> (~gv.m_graphic_sel \/ hpos < 33 \/ hpos >= 627))
  /\ (Returned("wait_mem") /\ ~gv.m_graphic_sel) =>
       /\ gv.m_gv_fsm_state \notin MemStates
       /\ ~gv.gv_timer

\* C29 witness: with graphics displayed the arbiter returned zero at
\* position 627 and a delay at position 626
C29_Witness ==
  /\ Returned("time_to_gv_mem_availability")
  /\ gv.m_graphic_sel
  /\ \/ hpos = 627 /\ last_op.res = 0
     \/ hpos = 626 /\ last_op.res > 0

\* ------------------------------------------------------- frames of the display
\* Vertical-blank starts a behaviour runs through
MaxFrames == 2

\* The screen as MCFG_SCREEN_RAW_PARAMS and set_graphic_mode configure it
VTotal ==
  IF variant = "C" THEN VIDEO_770_VTOTAL
  ELSE IF gv.m_graphic_sel THEN GVIDEO_VTOTAL ELSE VIDEO_VTOTAL
VBStart ==
  IF variant = "C" THEN VIDEO_770_VBSTART
  ELSE IF gv.m_graphic_sel THEN GVIDEO_VBSTART ELSE VIDEO_ACTIVE_SCANLINES
VBEnd ==
  IF variant = "C" THEN VIDEO_770_VBEND
  ELSE IF gv.m_graphic_sel THEN GVIDEO_VBEND ELSE 0

VideoInit ==
  /\ variant \in {"B", "C"}
  /\ \E ram \in (IF variant = "B" THEN B_Lists ELSE C_Lists) : \E g \in Glyphs :
       gv = [(IF variant = "B" THEN b_machine_reset(Cleared) ELSE c_machine_reset(Cleared))
               EXCEPT !.ram = ram, !.chargen = g]
  /\ hpos = 0
  /\ last_op = [Call("machine_reset", << >>) EXCEPT !.done = TRUE]
  /\ nops = 0

\* scanline_timer for the scanline the beam is on
VideoScanline ==
  /\ ~gv.hung
  /\ ~(gv.vpos = VBStart /\ ~gv.halt)
  /\ ~(gv.vpos = VBEnd /\ gv.halt)
  /\ gv' = [(IF variant = "B" THEN b_scanline_timer(gv, gv.vpos)
                              ELSE c_scanline_timer(gv, gv.vpos))
              EXCEPT !.vpos = (gv.vpos + 1) % VTotal]
  /\ last_op' = [Call("scanline_timer", << gv.vpos >>) EXCEPT !.done = TRUE]
  /\ UNCHANGED << variant, hpos, nops >>

\* vblank_w(true) when the beam leaves the visible area
VideoVblankStart ==
  /\ ~gv.hung
  /\ gv.vpos = VBStart /\ ~gv.halt
  /\ gv.frames < MaxFrames
  /\ \E lp \in LpInputs :
       gv' = IF variant = "B" THEN b_vblank_w_fetch(gv, TRUE)
                              ELSE c_vblank_w_fetch(gv, TRUE, lp)
  /\ last_op' = [Call("vblank_w", << TRUE >>) EXCEPT !.done = TRUE]
  /\ UNCHANGED << variant, hpos, nops >>

\* vblank_w(false) when the beam enters the visible area
VideoVblankEnd ==
  /\ ~gv.hung
  /\ gv.vpos = VBEnd /\ gv.halt
  /\ \E lp \in LpInputs :
       gv' = IF variant = "B" THEN b_vblank_w_fetch(gv, FALSE)
                              ELSE c_vblank_w_fetch(gv, FALSE, lp)
  /\ last_op' = [Call("vblank_w", << FALSE >>) EXCEPT !.done = TRUE]
  /\ UNCHANGED << variant, hpos, nops >>

VideoNext == VideoScanline \/ VideoVblankStart \/ VideoVblankEnd

VideoSpec == VideoInit /\ [][VideoNext]_vars

\* A row fetch has just run: at the start of vertical blank and at the first
\* scanline of a text row
Fetched ==
  \/ last_op.op = "vblank_w" /\ last_op.args[1]
  \/ /\ last_op.op = "scanline_timer"
     /\ last_op.args[1] % VIDEO_CHAR_HEIGHT = 0
     /\ IF variant = "B"
        THEN ~gv.m_graphic_sel /\ last_op.args[1] < VIDEO_ACTIVE_SCANLINES
        ELSE last_op.args[1] < VIDEO_770_VBSTART

\* The row buffer the last fetch filled
Filled == gv.m_video_buff[~gv.m_video_buff_idx]

\* C23: every row fetch returns, for any host memory contents, after at most
\* 220 (MAX_WORD_PER_ROW) word reads of host memory
C23_FetchReadsBounded ==
  /\ ~gv.hung
  /\ Fetched => gv.reads <= 220

\* C23 witness: a fetch on a list whose new-address word points back to itself
\* has returned after 220 reads
C23_Witness ==
  /\ Fetched /\ ~gv.hung
  /\ ReadWord(gv.ram, gv.m_video_mar) \in {49152, 32768}
  /\ gv.stored = 0
  /\ gv.reads = 220
  /\ ~Filled.full

\* C24 as claimed: after a row fetch the buffer is full exactly when an
\* end-of-line marker was found
C24_FullIffEol == Fetched => (Filled.full <=> gv.eol)

\* C24 amended: after a row fetch the buffer is full exactly when an
\* end-of-line marker was found or the 80th character of the row was stored
C24_FullIffEolOrRowEnd ==
  Fetched => (Filled.full <=> (gv.eol \/ gv.stored = 80))

\* C24 witness: a fetch has ended full on the 80th character without an
\* end-of-line marker
C24_Witness ==
  /\ Fetched
  /\ Filled.full /\ ~gv.eol /\ gv.stored = 80

\* A scanline of the alpha display has just been rendered, alpha selected
RenderedAlpha ==
  /\ last_op.op = "scanline_timer"
  /\ IF variant = "B"
     THEN ~gv.m_graphic_sel /\ last_op.args[1] < VIDEO_ACTIVE_SCANLINES
     ELSE gv.m_alpha_sel /\ last_op.args[1] < VIDEO_770_VBSTART

\* C21: within one frame with alpha selected, a scanline is rendered blank
\* exactly when the row buffer rendered for it or for an earlier scanline of
\* the frame was not full, and blanking is cleared only by the start of the
\* vertical blank
C21_BlankFromFirstNonFull ==
  /\ [](RenderedAlpha => (gv.blank <=> gv.nonfull))
  /\ [][(gv.m_video_blanked /\ ~gv'.m_video_blanked)
          => (last_op'.op = "vblank_w" /\ last_op'.args[1])]_vars

\* C21 witness: after a start of vertical blank a scanline is rendered blank
\* from a full row buffer, an earlier row buffer of the frame not having been
\* full
C21_Witness ==
  /\ RenderedAlpha /\ gv.frames >= 1
  /\ gv.blank /\ gv.nonfull
  /\ gv.m_video_buff[gv.m_video_buff_idx].full

\* A frame has just ended: the second or a later start of vertical blank
FrameEnded ==
  last_op.op = "vblank_w" /\ last_op.args[1] /\ gv.frames >= 2

\* C22 as claimed: between two starts of vertical blank the buffer index is
\* toggled as many times as text rows are displayed
C22_TogglesPerRow == FrameEnded => gv.frame_toggles = gv.frame_rows

\* C22 amended: the buffer index changes exactly at a start of vertical blank
\* and at the first scanline of a text row, so that between two starts of
\* vertical blank it is toggled once more than text rows are displayed
C22_TogglesPerRowAndVblank ==
  /\ [][(gv'.m_video_buff_idx # gv.m_video_buff_idx) <=> Fetched']_vars
  /\ [](FrameEnded => gv.frame_toggles = gv.frame_rows + 1)

\* C22 witness: a frame of 25 or 31 text rows has ended
C22_Witness ==
  /\ FrameEnded
  /\ gv.frame_rows \in {VIDEO_CHAR_ROWS, 31}
  /\ gv.frame_toggles = gv.frame_rows + 1

\* A scanline has been rendered with the graphic display selected
RenderedGraphic ==
  /\ Returned("scanline_timer") /\ last_op.args[2]
  /\ IF variant = "B"
     THEN last_op.args[1] >= GVIDEO_VBEND /\ last_op.args[1] < GVIDEO_VBSTART
     ELSE last_op.args[1] < VIDEO_770_VBSTART

\* The pens of a cursor pixel and of a set alpha pixel at column c
CursorPen == IF variant = "B" THEN 3 ELSE 16 + gv.m_gv_cursor_color
AlphaPen(c) ==
  8 + ((CellRead(gv.m_video_buff[gv.m_video_buff_idx].attrs, c \div 9) \div 16) % 8)

\* C25 as claimed: at every column where the cursor predicate is true the
\* final pixel of the scanline is the cursor pen, whatever the alpha pixel and
\* the graphics bits are
C25_CursorOverAll ==
  RenderedGraphic => \A c \in gv.cursor_at : gv.bitmap[c] = CursorPen

\* C25 amended: at every column where the cursor predicate is true the final
\* pixel is the cursor pen whatever the graphics bits are, unless the alpha
\* pixel of the column is set on a scanline that is not blanked: the alpha
\* overlay is applied after graphics and cursor, and there the pixel is the
\* alpha pen
C25_CursorOverGraphicsUnderAlpha ==
  RenderedGraphic =>
    \A c \in gv.cursor_at :
      gv.bitmap[c] = IF c \in gv.alpha_at THEN AlphaPen(c) ELSE CursorPen

\* C25 witness: on one scanline a cursor pixel shows over set graphics bits
\* at column 101 and a set alpha pixel has replaced the cursor at column 100
C25_Witness ==
  /\ RenderedGraphic /\ variant = "C"
  /\ last_op.args[5] = 65535
  /\ {100, 101} \subseteq gv.cursor_at
  /\ 100 \in gv.alpha_at /\ 101 \notin gv.alpha_at
  /\ gv.bitmap[100] = AlphaPen(100) /\ gv.bitmap[101] = CursorPen

\* A word of bitplane memory: plane 0..2, address 0..16383
InPlanes(k) == k[1] \in 0..2 /\ k[2] \in 0..16383

\* C26: every word of bitplane memory read or written (word transfers of the
\* FSM, single-pixel writes, plot, the scanline renderers) lies in plane 0..2
\* at address 0..16383, the address counter stays there, and every cell of a
\* row buffer written lies in 0..79, whatever words the host supplies
C26_IndexesInRange ==
  /\ \A k \in DOMAIN gv.m_graphic_mem : InPlanes(k)
  /\ \A i \in 1..Len(gv.xfers) : InPlanes(gv.xfers[i])
  /\ \A k \in gv.greads : InPlanes(k)
  /\ InPlanes(<< gv.m_gv_plane, gv.m_gv_io_counter >>)
  /\ gv.cells \subseteq 0..79

\* C26 witness: the address counter has been loaded from the largest word
\* position the host can supply, (63, 511), and lies at address 1564
C26_Witness ==
  /\ Returned("advance_gv_fsm") /\ variant = "C"
  /\ gv.m_gv_word_x_position = 63 /\ gv.m_gv_word_y_position = 511
  /\ gv.m_gv_io_counter = 1564


\* ------------------------------------------------- deferred accesses, streams
\* The host strobes a data word (write of R4 or R6) while a word write waits
\* in WAIT_MEM_1 for its wake-up
StrobeOnDeferred ==
  /\ gv.m_gv_fsm_state = GV_STAT_WAIT_MEM_1 /\ gv.gv_timer
  /\ variant = "C" => gv.m_gv_gr_en
  /\ last_op'.op = "graphic_w" /\ last_op'.offset \in {0, 2}
  /\ nops' = nops + 1

\* C31: a word write deferred in WAIT_MEM_1 commits the word that was strobed
\* for it: when the host writes R4 or R6 before the wake-up, the word still
\* waiting (or the word committed by that very access) is the one strobed
\* first, and the new word is not lost.
C31_DeferredWriteKeepsWord ==
  [][StrobeOnDeferred =>
       IF gv'.m_gv_fsm_state = GV_STAT_WAIT_MEM_1
       THEN gv'.m_gv_data_w = gv.m_gv_data_w
       ELSE MemRead(gv'.m_graphic_mem, IF variant = "C" THEN gv.m_gv_plane ELSE 0,
                    gv.m_gv_io_counter) = gv.m_gv_data_w]_vars


\* C32 (as claimed): whenever a handler returns with the FSM resting in
\* WAIT_MEM_0, WAIT_MEM_1 or WAIT_MEM_2 a wake-up of the arbiter timer is
\* pending, whatever register accesses, wake-ups, vertical blanks and changes
\* of graphics enable came before.
C32_SuspendedHasWakeUp ==
  (~gv.hung /\ gv.m_gv_fsm_state \in MemStates) => gv.gv_timer

\* C32 (amended): as claimed while, on the three-plane controller, graphics
\* enable is set. A wake-up that fires with graphics enable clear leaves the
\* FSM suspended and nothing pending, until a handler runs the FSM with
\* graphics enable set again.
C32_SuspendedHasWakeUpIfEnabled ==
  (~gv.hung /\ gv.m_gv_fsm_state \in MemStates /\ (variant = "C" => gv.m_gv_gr_en))
    => gv.gv_timer

\* C32 witness: an R5 write that sets graphics enable has found the FSM
\* suspended and memory unavailable, and returns with the timer armed
C32_Witness ==
  /\ variant = "C" /\ ~gv.hung
  /\ last_op.op = "graphic_w" /\ last_op.offset = 1 /\ ~BIT(last_op.data, 5)
  /\ last_op.from \in MemStates
  /\ hpos = 34 - GVIDEO_HCNT_OFF
  /\ gv.m_gv_gr_en /\ gv.m_gv_fsm_state \in MemStates /\ gv.gv_timer


\* ------------------------------------------------------- write/read round trip
\* Most words written in one round trip
MaxWords == 4

\* The i-th word written
RoundWord(i) == 43690 + i

\* Words that load the X and the Y I/O address (complemented): word (34, 454)
\* and the last word of the plane, (3, 468)
RoundAddresses == { << 65501, 65081 >>, << 65532, 65067 >> }

\* R5 := load X I/O address, R4 := a[1]; R5 := load Y I/O address, R4 := a[2],
\* R7; R5 := write-words
RoundStart(a) ==
  << <<1, 264>>, <<0, a[1]>>, <<1, 265>>, <<0, a[2]>>, <<3, 0>>, <<1, 256>> >>

\* From s, where i - 1 words have been written: each of the words i .. n, once
\* written to R4, is the word a read of R4 returns after R5 := read-words with
\* the reset bit
RECURSIVE RoundReads(_, _, _)
RoundReads(s, i, n) ==
  \/ i > n
  \/ LET t == HostWrites(s, << <<0, RoundWord(i)>> >>)
     IN /\ HostRead(HostWrites(t, << <<1, 289>> >>), 0).res = RoundWord(i)
        /\ RoundReads(t, i + 1, n)

ReadStream == {GV_STAT_WAIT_MEM_0, GV_STAT_WAIT_DS_1}

\* C34: once the FSM is in the read stream (WAIT_MEM_0 or WAIT_DS_1) it stays
\* there under data strobes, triggers, wake-ups, vertical blanks and R5 writes
\* without the reset bit, whatever command those R5 writes load: only an R5
\* write with the reset bit or a controller reset takes it out.
C34_ReadStreamHolds ==
  [][(gv.m_gv_fsm_state \in ReadStream /\ ~(HostStep /\ IsReset(last_op')))
       => (gv'.m_gv_fsm_state \in ReadStream /\ ~gv'.hung)]_vars

\* C34 witness: with a command other than read-words loaded by an R5 write
\* without the reset bit, a data strobe has found the FSM in the read stream
\* and left it there
C34_Witness ==
  /\ ~gv.hung /\ (variant = "C" => gv.m_gv_gr_en)
  /\ last_op.op \in {"graphic_r", "graphic_w"} /\ last_op.offset \in {0, 2}
  /\ last_op.from = GV_STAT_WAIT_DS_1
  /\ gv.m_gv_fsm_state \in ReadStream
  /\ IF variant = "B" THEN gv.m_gv_cmd \div 4 # 3 ELSE gv.m_gv_cmd # 1


\* C35: three-plane controller: after any R5 writes and resets (every handler
\* having returned), light pen enable and graphics enable are never both set,
\* and light pen interrupt enable implies graphics enable clear; no access of
\* R4 or R6 both runs the graphics FSM and steps the register counter of the
\* light pen.
C35_LightPenExcludesGraphics ==
  /\ []((variant = "C" /\ ~gv.hung) =>
          /\ ~(gv.m_gv_lp_en /\ gv.m_gv_gr_en)
          /\ gv.m_gv_lp_int_en => ~gv.m_gv_gr_en)
  /\ [][(/\ variant = "C" /\ HostStep
         /\ last_op'.op \in {"graphic_r", "graphic_w"}
         /\ last_op'.offset \in {0, 2})
          => ~(gv'.path # << >> /\ gv'.m_gv_lp_reg_cnt # gv.m_gv_lp_reg_cnt)]_vars

\* C35 witness: an R5 write with bits 10 and 8 set has enabled graphics and
\* left the light pen disabled with its register counter at 6; the read of R4
\* that followed has run the FSM and left the counter alone
C35_Witness ==
  /\ variant = "C" /\ ~gv.hung
  /\ last_op.op = "graphic_r" /\ last_op.offset = 0
  /\ gv.m_gv_gr_en /\ ~gv.m_gv_lp_en /\ ~gv.m_gv_lp_int_en
  /\ gv.path # << >>
  /\ gv.m_gv_lp_reg_cnt = 6


\* ------------------------------------------------------ row buffers in turn
\* A scanline of a text row has just been rendered from a row buffer
TextLine ==
  /\ last_op.op = "scanline_timer"
  /\ IF variant = "B"
     THEN ~gv.m_graphic_sel /\ last_op.args[1] < VIDEO_ACTIVE_SCANLINES
     ELSE last_op.args[1] < VIDEO_770_VBSTART

\* C36: the fetcher never fills the row buffer on display: every fetch (at a
\* row start and at the start of vertical blank) writes the buffer opposite to
\* the buffer index, every scanline is rendered from the buffer at the index,
\* the buffer rendered for a row of a frame (the rows after a start of
\* vertical blank) is the one the fetch before the
\* row filled (during the row before, or at the start of vertical blank for
\* the first row) as that fetch left it, and no buffer changes during the
\* other scanlines of the row.
C36_FetchOppositeRender ==
  /\ [](Fetched => gv.filled = ~gv.m_video_buff_idx)
  /\ [](TextLine => (gv.shown = gv.m_video_buff_idx /\ gv.shown # gv.filled))
  /\ [][(TextLine' /\ Fetched' /\ gv.frames >= 1) =>
          /\ gv'.shown = gv.filled
          /\ gv'.m_video_buff[gv'.shown] = gv.m_video_buff[gv.filled]]_vars
  /\ [][(TextLine' /\ ~Fetched') => gv'.m_video_buff = gv.m_video_buff]_vars

\* C36 witness: the first scanline of a row of a frame is rendered from a full
\* buffer while the fetch of the next row has filled the other buffer with a
\* different row
C36_Witness ==
  /\ TextLine /\ Fetched /\ gv.frames >= 1
  /\ gv.shown # gv.filled
  /\ gv.m_video_buff[gv.shown].full
  /\ gv.m_video_buff[gv.filled].full
  /\ gv.m_video_buff[gv.shown] # gv.m_video_buff[gv.filled]


\* ------------------------------------------------------ clear/set of words
\* A clear/set of words has run from its trigger or from its memory access
ClearSetDone ==
  /\ Returned("advance_gv_fsm") /\ variant = "C" /\ Len(last_op.args) = 4
  /\ gv.m_gv_cmd = 2

\* Bit n of the memory control word, n in 0..6
ControlBit(n) == (gv.m_gv_memory_control \div (2 ^ n)) % 2 = 1

\* What a clear/set of words leaves at the word it found the cursor on: the
\* data word (the one the trigger sets from the set-bit of the plane, bit
\* plane + 3) when the active bit of the plane (bit plane) is set, else the
\* word that lay there
ClearSetWord ==
  LET p == last_op.args[4]
  IN IF ~ControlBit(p) THEN 43690
     ELSE IF last_op.args[1] = GV_STAT_WAIT_MEM_1 THEN last_op.args[2]
     ELSE IF ControlBit(p + 3) THEN 65535 ELSE 0

EndPointsDone == Returned("advance_gv_fsm") /\ Len(last_op.args) = 7
EndDraw == last_op.args[2]
EndNew == << last_op.args[3], last_op.args[4] >>
EndBefore == << last_op.args[5], last_op.args[6] >>
EndLine == last_op.args[7]

\* C38: a load of end points whose X word has bit 10 clear is a pure move: no
\* bitplane word is changed, nothing is plotted, and the stored end point
\* becomes the new (x, y). After a draw the stored end point is the new point
\* as well, and a line drawn runs between the end point before and the new
\* one, so successive end points form a connected polyline.
C38_MoveAndDrawChain ==
  EndPointsDone =>
    /\ ~gv.hung /\ gv.m_gv_fsm_state = GV_STAT_WAIT_DS_0
    /\ << gv.m_gv_last_xpt, gv.m_gv_last_ypt >> = EndNew
    /\ ~EndDraw => /\ gv.m_graphic_mem = (<< 0, 0 >> :> 43690)
                   /\ gv.plots = << >>
    /\ (EndDraw /\ EndLine) =>
         { Points[1], Points[Len(gv.plots)] } = { EndBefore, EndNew }

\* C38 witness: a move from (10, 3) to (2, 1) has left memory as it was and
\* stored (2, 1)
C38_Witness ==
  /\ EndPointsDone /\ ~EndDraw
  /\ EndBefore = << 10, 3 >> /\ EndNew = << 2, 1 >>
  /\ gv.m_gv_last_xpt = 2 /\ gv.m_gv_last_ypt = 1
  /\ gv.m_graphic_mem = (<< 0, 0 >> :> 43690)


\* ------------------------------------------------------ direction of a vector
\* The pixels plotted by a run: the set of the (x, y) of its plots
PixelSet(s) == { << s.plots[i][1], s.plots[i][2] >> : i \in DOMAIN s.plots }

\* The same load of end points run with the two points exchanged: the end
\* point before is EndNew, the X and Y words carry EndBefore
Exchanged ==
  c_advance_gv_fsm(EndPoints(TRUE, EndBefore[1], EndBefore[2], EndNew[1], EndNew[2],
                             EndLine),
                   FALSE, FALSE, hpos)

\* C40: a vector drawn from the end point before, P, to the new end point Q
\* plots the same set of pixels as the vector drawn from Q to P, in line mode
\* and in area fill mode.
C40_DirectionIndependent ==
  (EndPointsDone /\ EndDraw) =>
    /\ ~gv.hung /\ ~Exchanged.hung
    /\ PixelSet(gv) = PixelSet(Exchanged)

\* C40 witness: the line from (0, 0) to (10, 3) has been drawn; it has 11
\* points, and so has the line from (10, 3) to (0, 0)
C40_Witness ==
  /\ EndPointsDone /\ EndDraw /\ EndLine
  /\ EndBefore = << 0, 0 >> /\ EndNew = << 10, 3 >>
  /\ Len(gv.plots) = 11 /\ Cardinality(PixelSet(gv)) = 11
  /\ Len(Exchanged.plots) = 11


\* ---------------------------------------------------- light pen hit registers
\* The three R4 reads that follow the R5 write 0x0406 (light pen enabled,
\* register 6 selected) applied to s: the words returned and the state left
LpRead1(s) == HostRead(HostWrites(s, << << 1, 1030 >> >>), 0)
LpRead2(s) == HostRead(LpRead1(s).s, 2)
LpRead3(s) == HostRead(LpRead2(s).s, 0)

\* The YHI word: hit register 0 with bit 12 set outside vertical blank, bit
\* 14 with the pen's switch and bit 15 with a first hit
YhiWord(s) ==
  s.m_gv_lp_data[1] + (IF s.m_gv_lp_vblank THEN 0 ELSE 4096)
    + (IF s.m_gv_lp_sw THEN 16384 ELSE 0) + (IF s.m_gv_lp_1sthit THEN 32768 ELSE 0)

\* The last handler was a start of vertical blank
VblankStart(o) == o.op = "vblank_w" /\ o.offset = 1

\* C39: on the three-plane controller, after an R5 write that enables the
\* light pen and selects register 6, three reads of R4 or R6 return YHI, XLEFT
\* and YLO in that order and leave the register counter at 5, 4 and 3; the
\* YLO read clears the light pen status and the ready flag. The status, once
\* clear, stays clear until a start of vertical blank (and with it the light
\* pen's service request, and the ready flag while graphics is disabled), and
\* the three hit registers change at a start of vertical blank only.
C39_LightPenReads ==
  /\ []((variant = "C" /\ ~gv.hung) =>
          /\ LpRead1(gv).res = YhiWord(gv)
          /\ LpRead1(gv).s.m_gv_lp_reg_cnt = 5
          /\ LpRead2(gv).res = gv.m_gv_lp_data[2]
          /\ LpRead2(gv).s.m_gv_lp_reg_cnt = 4
          /\ LpRead3(gv).res = gv.m_gv_lp_data[3]
          /\ LpRead3(gv).s.m_gv_lp_reg_cnt = 3
          /\ ~LpRead3(gv).s.m_gv_lp_status
          /\ ~LpRead3(gv).s.flg
          /\ LpRead3(gv).s.m_gv_lp_data = gv.m_gv_lp_data)
  /\ []((variant = "C" /\ ~gv.hung /\ ~gv.m_gv_lp_status /\ ~gv.m_gv_gr_en) => ~gv.flg)
  /\ [][(variant = "C" /\ ~gv.m_gv_lp_status /\ ~VblankStart(last_op')) =>
          ~gv'.m_gv_lp_status]_vars
  /\ [][(variant = "C" /\ gv'.m_gv_lp_data # gv.m_gv_lp_data) =>
          (HostStep /\ VblankStart(last_op'))]_vars

\* C39 witness: the YLO read has returned hit register 2 as the start of
\* vertical blank computed it, the counter is at 3, status and ready flag
\* are clear
C39_Witness ==
  /\ variant = "C" /\ last_op.op = "graphic_r" /\ last_op.offset \in {0, 2}
  /\ gv.m_gv_lp_en /\ gv.m_gv_lp_reg_cnt = 3
  /\ gv.m_gv_lp_data[3] # 0 /\ last_op.res = gv.m_gv_lp_data[3]
  /\ ~gv.m_gv_lp_status /\ ~gv.flg /\ ~gv.m_gv_lp_1sthit

============================================================================
